---- MODULE Spec2Model ----
(***************************************************************************)
(* WriteProof: keystroke log, hash chain, replay and verification.         *)
(*                                                                         *)
(* Text is a sequence of one-character strings.  A digest is a sequence of *)
(* tokens "sha256(" ... ")" (or "fallback(" ... ")" where crypto.subtle is *)
(* missing) around the digested text: an injective                         *)
(* (collision-free) rendering of SHA-256, so two digests are equal exactly *)
(* when the digested texts are equal.  Indices stored in data (log index,  *)
(* keystrokeIndex, position) are the 0-based numbers of the JavaScript     *)
(* code; TLA+ sequences are 1-based, so log[i] of the code is log[i + 1].  *)
(*                                                                         *)
(* The module holds several specifications, one per part of the program:   *)
(*   SpecVerify         verifyDocument over recorded and altered documents *)
(*   SpecReplay         ReplayEngine: snapshot cache and seekTo            *)
(*   SpecPlayback       ReplayEngine: play, pause, resume, stop, seekTo    *)
(*                      and the suspended invocations of play()            *)
(*   SpecEditor         the Editor's save, dirty flag and document         *)
(*                      switches over the document store of storage.js     *)
(*   SpecExport         export to JSON and import of the result            *)
(*   SpecRecorder       the editor with the KeystrokeRecorder of           *)
(*                      core/keystroke.js: capture, hash queue, save,      *)
(*                      export, reload                                     *)
(*   SpecHashQueue      the same recorder alone over a longer log, its     *)
(*                      digests settling in the end                        *)
(*   SpecAsyncRecorder  the KeystrokeRecorder of core/editor.js, whose     *)
(*                      input handler is an async function                 *)
(*   SpecAsyncCheckpoints  the same recorder over a session long enough    *)
(*                      for two checkpoints                                *)
(*   SpecQueuedRecorder the KeystrokeRecorder that pushes events at once   *)
(*                      and hashes them, with a checkpoint every           *)
(*                      CHECKPOINT_INTERVAL events, on its _hashQueue      *)
(* Each specification leaves the variables of the other parts unchanged.   *)
(***************************************************************************)
EXTENDS Integers, Sequences, FiniteSets, TLC

VARIABLES
    \* ---- verification (hashing.js verifyDocument, verify page) ----
    vdoc,        \* the document under construction / handed to verifyDocument
    vphase,      \* "recording" | "altered" | "verified"
    valter,      \* what was altered in the document after recording
    vresults,    \* what verifyDocument returned
    cryptoSubtle,  \* whether the page has crypto.subtle (a secure context)
    \* ---- replay (features/replay.js ReplayEngine) ----
    rlog,        \* doc.keystrokeLog of the replayed document
    rphase,      \* "log" while the log is written | "engine" once constructed
    rInterval,   \* the snapshot interval the engine was built with
    rSnapshots,  \* this._snapshots: log index -> content
    rIndex,      \* this._index
    rContent,    \* this._content
    rState,      \* this._state: "stopped" | "playing" | "paused"
    \* ---- export / import (features/export.js) ----
    xdoc,        \* the document handed to exportToJSON / generateShareURL
    xphase,      \* "idle" | "doc" | "exported" | "edited" | "imported" | "verified"
    xjson,       \* the JSON text written by the export
    ximported,   \* what importFromString returned for that text
    xresults,    \* what verifying the imported document gave
    \* ---- the editor and its KeystrokeRecorder (core/keystroke.js) ----
    know,          \* performance.now(), in milliseconds
    kdom,          \* the editable element: its text and selection offsets
    krec,          \* the recorder's fields: _sessionStart, _prevValue, ...
    kdoc,          \* the editor's document: keystrokeLog, content, chainHash
    kqueue,        \* _hashQueue: the hashing tasks not yet finished, in order
    kstore,        \* the copy of the document in storage
    kexported,     \* the document as last handed to exportToJSON
    kdirty,        \* Editor._dirty
    khash,         \* per event of kdoc.keystrokeLog, where its hashing stands
    \* ---- the KeystrokeRecorder of core/editor.js (async _handleInput) ----
    adom,          \* the editable element
    arec,          \* the recorder's fields
    adoc,          \* the document: keystrokeLog, hashChain, content
    ahandlers,     \* the invocations of _handleInput waiting at an await
    areturned,     \* the events built by invocations that have returned
    afailed,       \* whether a digest awaited by an invocation has failed
    \* ---- the KeystrokeRecorder with _hashQueue and checkpoints ----
    qdom,          \* the editable element
    qrec,          \* the recorder's fields
    qdoc,          \* the document: keystrokeLog, hashChain, content
    qqueue,        \* _hashQueue: the hashing tasks not yet finished, in order
    qfailed,       \* the number of digests that have failed
    \* ---- playback (ReplayEngine play / pause / resume / stop / seekTo) ----
    plog,          \* doc.keystrokeLog of the document played back
    pphase,        \* "log" while the log is written | "engine" once constructed
    pCheckpoints,  \* the log indices in _checkpointMap whose digest is reported
    pState,        \* this._state: "stopped" | "playing" | "paused"
    pIndex,        \* this._index
    pContent,      \* this._content
    pAbort,        \* this._abortController: "null" | "live" | "aborted"
    pLoops,        \* the invocations of play(), in order: where each one waits
    pApplied,      \* the events applied since the latest play() began, with the
                   \* invocation that applied each
    pCompleted,    \* the calls of onComplete since the latest play() began
    pLast,         \* the latest call on the engine and the fields it found
    \* ---- the Editor and the document store (core/editor.js, storage.js) ----
    eDoc,          \* Editor._doc, or Null
    eDirty,        \* Editor._dirty
    eSaves,        \* the invocations of save() waiting at `await ready`, in order
    eStorage,      \* localStorage: the item writeproof_docs, <<>> when absent
    eRecent,       \* per id, the document most recently saved and not deleted
    eNextId,       \* the number of ids generateUUID has handed out, plus one
    eLast          \* what the latest step did

verVars == <<vdoc, vphase, valter, vresults, cryptoSubtle>>
repVars == <<rlog, rphase, rInterval, rSnapshots, rIndex, rContent, rState>>
expVars == <<xdoc, xphase, xjson, ximported, xresults>>
recVars == <<know, kdom, krec, kdoc, kqueue, kstore, kexported, kdirty, khash>>
asyVars == <<adom, arec, adoc, ahandlers, areturned, afailed>>
queVars == <<qdom, qrec, qdoc, qqueue, qfailed>>
plaVars == <<plog, pphase, pCheckpoints, pState, pIndex, pContent, pAbort, pLoops, pApplied, pCompleted, pLast>>
edVars == <<eDoc, eDirty, eSaves, eStorage, eRecent, eNextId, eLast>>
vars == <<verVars, repVars, expVars, recVars, asyVars, queVars, plaVars, edVars>>

(***************************************************************************)
(* Bounds of the model.                                                    *)
(***************************************************************************)
VMaxLog == 10
VMaxContent == 2
RMaxLog == 4
RMaxContent == 2
RMaxInterval == 3
XMaxLog == 3
XMaxContent == 2
KMaxLog == 2
KMaxText == 2
KMaxTime == 1
AMaxLog == 3
ALongMaxLog == 20
ALongMaxText == 1
ALongMaxWaiting == 2
QMaxLog == 11
QMaxText == 2
QMaxFailures == 1
PMaxLog == 3
PMaxContent == 2
PMaxLoops == 2
ShortGap == 3
LongGap == 10
EMaxDocs == 3
EMaxText == 2
HMaxLog == 3

Chars == {"a", "b"}
TamperChar == "x"
PlaybackChar == "a"

Min(a, b) == IF a < b THEN a ELSE b
Max(a, b) == IF a > b THEN a ELSE b

(***************************************************************************)
(* String.prototype.slice as helpers.js uses it: indices are clamped to    *)
(* the string, a negative index counts from the end.                       *)
(***************************************************************************)
SliceIndex(n, len) == IF n < 0 THEN Max(len + n, 0) ELSE Min(n, len)

Slice(str, from, to) ==
    LET f == SliceIndex(from, Len(str))
        t == SliceIndex(to, Len(str))
    IN  IF f < t THEN SubSeq(str, f + 1, t) ELSE <<>>

SliceFrom(str, from) == Slice(str, from, Len(str))

insertAt(str, position, chars) ==
    Slice(str, 0, position) \o chars \o SliceFrom(str, position)

deleteAt(str, position, length) ==
    Slice(str, 0, position) \o SliceFrom(str, position + length)

(***************************************************************************)
(* hashing.js                                                              *)
(***************************************************************************)
CHECKPOINT_INTERVAL == 10

GenesisHash == <<"0">>
EmptyHash == <<>>

generateContentHash(content) ==
    IF cryptoSubtle THEN <<"sha256(">> \o content \o <<")">>
    ELSE <<"fallback(">> \o content \o <<")">>

\* createHashCheckpoint, lines 27-30: the cumulative hash the new checkpoint
\* is chained to, read from doc.hashChain.
PreviousCumulativeHash(doc) ==
    IF Len(doc.hashChain) > 0
    THEN doc.hashChain[Len(doc.hashChain)].cumulativeHash
    ELSE GenesisHash

\* createHashCheckpoint, lines 36-47: the checkpoint is built for index idx
\* and pushed on doc.hashChain.
PushCheckpoint(doc, idx, contentHash, cumulativeHash) ==
    [doc EXCEPT !.hashChain =
        Append(@, [timestamp |-> IF idx >= 0 /\ idx < Len(doc.keystrokeLog)
                                 THEN doc.keystrokeLog[idx + 1].timestamp
                                 ELSE 0,
                   keystrokeIndex |-> idx,
                   contentHash |-> contentHash,
                   cumulativeHash |-> cumulativeHash])]

\* createHashCheckpoint(doc, content, keystrokeIndex) run without anything
\* else touching doc between its awaits: the document with the new
\* checkpoint pushed on doc.hashChain.
createHashCheckpoint(doc, content, keystrokeIndex) ==
    LET contentHash == generateContentHash(content)
        previousCumulativeHash == PreviousCumulativeHash(doc)
        cumulativeHash == generateContentHash(previousCumulativeHash \o contentHash)
    IN  PushCheckpoint(doc, keystrokeIndex, contentHash, cumulativeHash)


\* computeEventHash(prevHash, event) is imported by keystroke.js from
\* hashing.js, which does not define it.  It is modelled from the
\* specification: chain[i] = Digest(chain[i-1] || serialize(event_i)) over the
\* fields time, kind, position, payload.  Both event shapes of the repository
\* ({t, y, p, c} and {timestamp, type, position, char}) are serialized.
EventTime(e) == IF "t" \in DOMAIN e THEN e.t ELSE e.timestamp
EventKind(e) == IF "y" \in DOMAIN e THEN e.y ELSE e.type
EventPosition(e) == IF "p" \in DOMAIN e THEN e.p ELSE e.position
EventPayload(e) ==
    IF "c" \in DOMAIN e THEN e.c
    ELSE IF "char" \in DOMAIN e THEN e.char ELSE <<>>

SerializeEvent(e) ==
    <<"{", ToString(EventTime(e)), EventKind(e), ToString(EventPosition(e)), ":">>
        \o EventPayload(e) \o <<"}">>

computeEventHash(prevHash, event) ==
    generateContentHash(prevHash \o SerializeEvent(event))

\* The chain head over a whole log, from the genesis value.
RECURSIVE ChainOver(_)
ChainOver(log) ==
    IF log = <<>> THEN GenesisHash
    ELSE computeEventHash(ChainOver(SubSeq(log, 1, Len(log) - 1)), log[Len(log)])

\* verifyDocument, lines 66-70 and 83: checkpointMap.get(i) after every
\* checkpoint was set() in order (a later one with the same index wins).
\* The result is <<>> (undefined) or <<checkpoint>>.
CheckpointMapGet(hashChain, i) ==
    LET S == {j \in 1..Len(hashChain) : hashChain[j].keystrokeIndex = i}
    IN  IF S = {} THEN <<>>
        ELSE <<hashChain[CHOOSE j \in S : \A k \in S : k <= j]>>

\* verifyDocument, lines 77-81: one step of the replay.
VerifyApply(replayContent, event) ==
    IF event.type = "insert" \/ event.type = "paste"
    THEN insertAt(replayContent, event.position, event.char)
    ELSE IF event.type = "delete"
    THEN deleteAt(replayContent, event.position, event.length)
    ELSE replayContent

\* verifyDocument, lines 74-97: the replay loop from index i.
RECURSIVE VerifyReplay(_, _, _, _)
VerifyReplay(doc, i, replayContent, results) ==
    IF i >= Len(doc.keystrokeLog) THEN results
    ELSE
        LET event == doc.keystrokeLog[i + 1]
            content2 == VerifyApply(replayContent, event)
            checkpoint == CheckpointMapGet(doc.hashChain, i)
            computedHash == generateContentHash(content2)
            results2 ==
                IF checkpoint = <<>> THEN results
                ELSE IF computedHash = checkpoint[1].contentHash
                THEN [results EXCEPT !.validCheckpoints = @ + 1]
                ELSE [results EXCEPT
                        !.invalidCheckpoints =
                            Append(@, [keystrokeIndex |-> i,
                                       expected |-> checkpoint[1].contentHash,
                                       actual |-> computedHash]),
                        !.isValid = FALSE]
        IN  VerifyReplay(doc, i + 1, content2, results2)

\* verifyDocument, lines 99-117: the cumulative chain of the checkpoints.
RECURSIVE VerifyCumulative(_, _, _, _)
VerifyCumulative(hashChain, i, previousCumulative, results) ==
    IF i >= Len(hashChain) THEN results
    ELSE
        LET checkpoint == hashChain[i + 1]
            expectedCumulative ==
                generateContentHash(previousCumulative \o checkpoint.contentHash)
            results2 ==
                IF expectedCumulative # checkpoint.cumulativeHash
                THEN [results EXCEPT
                        !.isValid = FALSE,
                        !.invalidCheckpoints =
                            Append(@, [type |-> "cumulative_hash_mismatch",
                                       checkpointIndex |-> i,
                                       expected |-> expectedCumulative,
                                       actual |-> checkpoint.cumulativeHash])]
                ELSE results
        IN  VerifyCumulative(hashChain, i + 1, checkpoint.cumulativeHash, results2)

\* What a call that throws gives instead of a result.
Thrown(name) == [thrown |-> name]

\* verifyDocument(doc).  The result has exactly the four properties the code
\* gives it; doc.chainHash and doc.content are never read.  Reading
\* doc.hashChain.length of a document that has no hashChain throws a
\* TypeError.
verifyDocument(doc) ==
    IF "hashChain" \notin DOMAIN doc THEN Thrown("TypeError")
    ELSE
    LET results == [totalCheckpoints |-> Len(doc.hashChain),
                    validCheckpoints |-> 0,
                    invalidCheckpoints |-> <<>>,
                    isValid |-> TRUE]
    IN  IF Len(doc.keystrokeLog) = 0 THEN results
        ELSE VerifyCumulative(doc.hashChain, 0, GenesisHash,
                              VerifyReplay(doc, 0, <<>>, results))

\* The verify page's btn-verify handler reads results.chainValid and
\* results.contentValid.  ResultSignal(results, name, value) is
\* results[name] === value: a property the result does not have is
\* undefined, which equals neither true nor false.
ResultSignal(results, name, value) ==
    name \in DOMAIN results /\ results[name] = value

(***************************************************************************)
(* SpecVerify: a document is recorded event by event (the log, the         *)
(* checkpoint every CHECKPOINT_INTERVAL events, the content and the chain  *)
(* head), then possibly altered by hand, then verified.                    *)
(***************************************************************************)
NoResults == [none |-> TRUE]
NoAlteration == [what |-> "none", index |-> 0]

EmptyDocument ==
    [keystrokeLog |-> <<>>, hashChain |-> <<>>, content |-> <<>>,
     chainHash |-> EmptyHash]

\* The events an input on content `content` can produce here: one character
\* typed at the end of the text, or the last character deleted (backspace).
RecordableEvents(content, timestamp) ==
    {[timestamp |-> timestamp, type |-> "insert", position |-> Len(content),
      char |-> <<ch>>, length |-> 1, contentHash |-> EmptyHash] :
        ch \in (IF Len(content) < VMaxContent THEN Chars ELSE {})}
    \cup
    {[timestamp |-> timestamp, type |-> "delete", position |-> q,
      char |-> <<content[q + 1]>>, length |-> 1, contentHash |-> EmptyHash] :
        q \in {Len(content) - 1} \cap Nat}

\* _handleInput of the checkpointing recorder, from the push to the log on:
\* the event is pushed, its contentHash is set to the digest of the new
\* content, and a checkpoint is created when its index + 1 is a multiple of
\* CHECKPOINT_INTERVAL.  The chain head is extended by the event.
RecordInto(doc, evt) ==
    LET newValue == VerifyApply(doc.content, evt)
        hashed == [evt EXCEPT !.contentHash = generateContentHash(newValue)]
        eventIndex == Len(doc.keystrokeLog)
        pushed == [doc EXCEPT !.keystrokeLog = Append(@, hashed),
                              !.content = newValue,
                              !.chainHash = computeEventHash(
                                  IF doc.chainHash = EmptyHash THEN GenesisHash
                                  ELSE doc.chainHash, hashed)]
    IN  IF (eventIndex + 1) % CHECKPOINT_INTERVAL = 0
        THEN createHashCheckpoint(pushed, newValue, eventIndex)
        ELSE pushed

VRecord ==
    /\ vphase = "recording"
    /\ Len(vdoc.keystrokeLog) < VMaxLog
    /\ \E evt \in RecordableEvents(vdoc.content, Len(vdoc.keystrokeLog)) :
           vdoc' = RecordInto(vdoc, evt)
    /\ UNCHANGED <<vphase, valter, vresults, cryptoSubtle>>

\* One field (time, kind, position or payload) of one event is altered.
EventKinds == {"insert", "delete", "paste"}

VAlterTime ==
    /\ vphase = "recording"
    /\ \E i \in 0..(Len(vdoc.keystrokeLog) - 1) :
        /\ vdoc' = [vdoc EXCEPT !.keystrokeLog[i + 1].timestamp = @ + 1]
        /\ valter' = [what |-> "time", index |-> i]
    /\ vphase' = "altered"
    /\ UNCHANGED <<vresults, cryptoSubtle>>

VAlterKind ==
    /\ vphase = "recording"
    /\ \E i \in 0..(Len(vdoc.keystrokeLog) - 1) :
       \E k \in EventKinds \ {vdoc.keystrokeLog[i + 1].type} :
        /\ vdoc' = [vdoc EXCEPT !.keystrokeLog[i + 1].type = k]
        /\ valter' = [what |-> "kind", index |-> i]
    /\ vphase' = "altered"
    /\ UNCHANGED <<vresults, cryptoSubtle>>

VAlterPosition ==
    /\ vphase = "recording"
    /\ \E i \in 0..(Len(vdoc.keystrokeLog) - 1) :
       \E q \in {vdoc.keystrokeLog[i + 1].position + 1,
                 vdoc.keystrokeLog[i + 1].position - 1} \cap Nat :
        /\ vdoc' = [vdoc EXCEPT !.keystrokeLog[i + 1].position = q]
        /\ valter' = [what |-> "position", index |-> i]
    /\ vphase' = "altered"
    /\ UNCHANGED <<vresults, cryptoSubtle>>

VAlterPayload ==
    /\ vphase = "recording"
    /\ \E i \in 0..(Len(vdoc.keystrokeLog) - 1) :
        /\ vdoc' = [vdoc EXCEPT !.keystrokeLog[i + 1].char = <<TamperChar>>]
        /\ valter' = [what |-> "payload", index |-> i]
    /\ vphase' = "altered"
    /\ UNCHANGED <<vresults, cryptoSubtle>>

\* The declared final content is edited by hand; log and chain are untouched.
VAlterContent ==
    /\ vphase = "recording"
    /\ \E c \in {<<>>, <<TamperChar>>, vdoc.content \o <<TamperChar>>} \ {vdoc.content} :
        /\ vdoc' = [vdoc EXCEPT !.content = c]
        /\ valter' = [what |-> "content", index |-> 0]
    /\ vphase' = "altered"
    /\ UNCHANGED <<vresults, cryptoSubtle>>

\* The document keeps all n events but declares the chain head and the
\* checkpoints of its first k < n events.
VDeclarePrefix ==
    /\ vphase = "recording"
    /\ \E k \in 0..(Len(vdoc.keystrokeLog) - 1) :
        /\ vdoc' = [vdoc EXCEPT
               !.chainHash = ChainOver(SubSeq(vdoc.keystrokeLog, 1, k)),
               !.hashChain = SelectSeq(@, LAMBDA cp : cp.keystrokeIndex < k)]
        /\ valter' = [what |-> "prefix", index |-> k]
    /\ vphase' = "altered"
    /\ UNCHANGED <<vresults, cryptoSubtle>>

\* A checkpoint is added to doc.hashChain by hand, chained to the last one as
\* createHashCheckpoint chains it: for an index inside the log (also one that
\* already has a checkpoint) or for the index after the last event, over the
\* document's content or over some other text.
VDeclareCheckpoint ==
    /\ vphase = "recording"
    /\ \E k \in 0..Len(vdoc.keystrokeLog) :
       \E c \in {vdoc.content, <<TamperChar>>} :
        /\ vdoc' = createHashCheckpoint(vdoc, c, k)
        /\ valter' = [what |-> "checkpoint", index |-> k]
    /\ vphase' = "altered"
    /\ UNCHANGED <<vresults, cryptoSubtle>>

\* The editor page is opened where crypto.subtle is missing (plain HTTP, not
\* localhost), before anything is recorded.
VOpenInsecure ==
    /\ vphase = "recording"
    /\ vdoc = EmptyDocument
    /\ cryptoSubtle
    /\ cryptoSubtle' = FALSE
    /\ UNCHANGED <<vdoc, vphase, valter, vresults>>

\* The recorded document is taken to a page of the other kind: recorded
\* without crypto.subtle and verified with it, or the reverse.
VChangeContext ==
    /\ vphase = "recording"
    /\ cryptoSubtle' = ~cryptoSubtle
    /\ valter' = [what |-> "context", index |-> 0]
    /\ vphase' = "altered"
    /\ UNCHANGED <<vdoc, vresults>>

\* btn-verify: results = await verifyDocument(currentDoc).
VVerify ==
    /\ vphase \in {"recording", "altered"}
    /\ vresults' = verifyDocument(vdoc)
    /\ vphase' = "verified"
    /\ UNCHANGED <<vdoc, valter, cryptoSubtle>>

Init ==
    /\ vdoc = EmptyDocument
    /\ vphase = "recording"
    /\ valter = NoAlteration
    /\ vresults = NoResults
    /\ cryptoSubtle = TRUE
    /\ rlog = <<>>
    /\ rphase = "idle"
    /\ rInterval = 0
    /\ rSnapshots = <<>>
    /\ rIndex = 0
    /\ rContent = <<>>
    /\ rState = "stopped"
    /\ xdoc = [id |-> ""]
    /\ xphase = "idle"
    /\ xjson = <<>>
    /\ ximported = [none |-> TRUE]
    /\ xresults = NoResults
    /\ know = 0
    /\ kdom = [text |-> <<>>, selStart |-> 0, selEnd |-> 0]
    /\ krec = [sessionStart |-> 0, prevValue |-> <<>>, prevSelStart |-> 0,
               prevSelEnd |-> <<>>, isPaste |-> FALSE, prevHash |-> <<"0">>,
               queueRejected |-> FALSE]
    /\ kdoc = [keystrokeLog |-> <<>>, content |-> <<>>, chainHash |-> <<>>]
    /\ kqueue = <<>>
    /\ kstore = [keystrokeLog |-> <<>>, content |-> <<>>, chainHash |-> <<>>]
    /\ kexported = <<>>
    /\ kdirty = FALSE
    /\ khash = <<>>
    /\ adom = [text |-> <<>>, selStart |-> 0, selEnd |-> 0]
    /\ arec = [sessionStart |-> 0, prevValue |-> <<>>, prevSelStart |-> 0,
               prevSelEnd |-> <<>>, isPaste |-> FALSE]
    /\ adoc = [keystrokeLog |-> <<>>, hashChain |-> <<>>, content |-> <<>>,
               chainHash |-> <<>>]
    /\ ahandlers = <<>>
    /\ areturned = <<>>
    /\ afailed = FALSE
    /\ qdom = [text |-> <<>>, selStart |-> 0, selEnd |-> 0]
    /\ qrec = [sessionStart |-> 0, prevValue |-> <<>>, prevSelStart |-> 0,
               prevSelEnd |-> <<>>, isPaste |-> FALSE]
    /\ qdoc = [keystrokeLog |-> <<>>, hashChain |-> <<>>, content |-> <<>>]
    /\ qqueue = <<>>
    /\ qfailed = 0
    /\ plog = <<>>
    /\ pphase = "log"
    /\ pCheckpoints = {}
    /\ pState = "stopped"
    /\ pIndex = 0
    /\ pContent = <<>>
    /\ pAbort = "null"
    /\ pLoops = <<>>
    /\ pApplied = <<>>
    /\ pCompleted = 0
    /\ pLast = [call |-> "none"]
    /\ eDoc = [null |-> TRUE]
    /\ eDirty = FALSE
    /\ eSaves = <<>>
    /\ eStorage = <<>>
    /\ eRecent = [x \in 1..EMaxDocs |-> [null |-> TRUE]]
    /\ eNextId = 1
    /\ eLast = [op |-> "none", id |-> 0]

\* The parts of the program this specification leaves alone.
VerifyFrame == UNCHANGED <<repVars, expVars, recVars, asyVars, queVars, plaVars, edVars>>

NextVerify ==
    \/ VRecord /\ VerifyFrame
    \/ VAlterTime /\ VerifyFrame
    \/ VAlterKind /\ VerifyFrame
    \/ VAlterPosition /\ VerifyFrame
    \/ VAlterPayload /\ VerifyFrame
    \/ VAlterContent /\ VerifyFrame
    \/ VDeclarePrefix /\ VerifyFrame
    \/ VDeclareCheckpoint /\ VerifyFrame
    \/ VOpenInsecure /\ VerifyFrame
    \/ VChangeContext /\ VerifyFrame
    \/ VVerify /\ VerifyFrame

SpecVerify == Init /\ [][NextVerify]_vars


(***************************************************************************)
(* features/replay.js: ReplayEngine over events {t, y, p, c}.              *)
(***************************************************************************)
SNAPSHOT_INTERVAL == 1000

\* The intervals an engine is built with: the program's, and small ones that
\* put snapshots inside the logs of the model.
SnapshotIntervals == (1..RMaxInterval) \cup {SNAPSHOT_INTERVAL}

\* A faulty variant of the replay step: a move event clears the content.
ReplayApplyMoveClears(content, event) ==
    IF event.y = "i" \/ event.y = "p"
    THEN insertAt(content, event.p, event.c)
    ELSE IF event.y = "d"
    THEN deleteAt(content, event.p, Len(event.c))
    ELSE <<>>

\* One step of the replay (the same four lines in _buildSnapshots, play and
\* seekTo): 'm' events do not affect content.
ReplayApply(content, event) ==
    IF event.y = "i" \/ event.y = "p"
    THEN insertAt(content, event.p, event.c)
    ELSE IF event.y = "d"
    THEN deleteAt(content, event.p, Len(event.c))
    ELSE content

\* _buildSnapshots: the forward pass from event i with the content so far.
RECURSIVE BuildSnapshotsFrom(_, _, _, _, _)
BuildSnapshotsFrom(log, interval, i, content, snapshots) ==
    IF i >= Len(log) THEN snapshots
    ELSE
        LET content2 == ReplayApply(content, log[i + 1])
        IN  BuildSnapshotsFrom(log, interval, i + 1, content2,
                IF (i + 1) % interval = 0
                THEN ((i + 1) :> content2) @@ snapshots
                ELSE snapshots)

buildSnapshots(log, interval) ==
    BuildSnapshotsFrom(log, interval, 0, <<>>, (0 :> <<>>))

\* A faulty variant of the search: it accepts a snapshot one event beyond the
\* target.
NearestSnapshotBeyond(snapshots, index) ==
    LET S == {idx \in DOMAIN snapshots : idx <= index + 1 /\ idx > 0}
    IN  IF S = {} THEN 0 ELSE CHOOSE idx \in S : \A j \in S : j <= idx

\* seekTo: the nearest snapshot at or before the target.
NearestSnapshot(snapshots, index) ==
    LET S == {idx \in DOMAIN snapshots : idx <= index /\ idx > 0}
    IN  IF S = {} THEN 0 ELSE CHOOSE idx \in S : \A j \in S : j <= idx

\* seekTo: events [i, index) applied to content.
RECURSIVE SeekApply(_, _, _, _)
SeekApply(log, i, index, content) ==
    IF i < index /\ i < Len(log)
    THEN SeekApply(log, i + 1, index, ReplayApply(content, log[i + 1]))
    ELSE content

\* seekTo(index): this._content afterwards.
SeekContent(snapshots, log, index) ==
    LET snapshotIndex == NearestSnapshot(snapshots, index)
    IN  SeekApply(log, snapshotIndex, index, snapshots[snapshotIndex])

\* The events of a replayed log: a character typed at the end, the last
\* character deleted, or the cursor moved.
ReplayableEvents(content, t) ==
    {[t |-> t, y |-> k, p |-> Len(content), c |-> <<ch>>] :
        k \in {"i", "p"},
        ch \in (IF Len(content) < RMaxContent THEN Chars ELSE {})}
    \cup
    {[t |-> t, y |-> "d", p |-> q, c |-> <<content[q + 1]>>] :
        q \in {Len(content) - 1} \cap Nat}
    \cup
    {[t |-> t, y |-> "m", p |-> 0]}

RAppend ==
    /\ rphase \in {"idle", "log"}
    /\ Len(rlog) < RMaxLog
    /\ \E evt \in ReplayableEvents(SeekApply(rlog, 0, Len(rlog), <<>>), Len(rlog)) :
           rlog' = Append(rlog, evt)
    /\ rphase' = "log"
    /\ UNCHANGED <<rInterval, rSnapshots, rIndex, rContent, rState>>

\* new ReplayEngine(doc), with the snapshot interval `interval`.
RConstruct ==
    /\ rphase = "log"
    /\ \E interval \in SnapshotIntervals :
        /\ rInterval' = interval
        /\ rSnapshots' = buildSnapshots(rlog, interval)
    /\ rIndex' = 0
    /\ rContent' = <<>>
    /\ rState' = "stopped"
    /\ rphase' = "engine"
    /\ UNCHANGED rlog

\* seekTo(index), as the progress bar calls it: 0 <= index <= total.
RSeekTo ==
    /\ rphase \in {"engine", "sought"}
    /\ \E index \in 0..Len(rlog) :
        /\ rContent' = SeekContent(rSnapshots, rlog, index)
        /\ rIndex' = index
    /\ rphase' = "sought"
    /\ UNCHANGED <<rlog, rInterval, rSnapshots, rState>>

\* The parts of the program this specification leaves alone.
ReplayFrame == UNCHANGED <<verVars, expVars, recVars, asyVars, queVars, plaVars, edVars>>

NextReplay ==
    \/ RAppend /\ ReplayFrame
    \/ RConstruct /\ ReplayFrame
    \/ RSeekTo /\ ReplayFrame

SpecReplay == Init /\ [][NextReplay]_vars

(***************************************************************************)
(* ReplayEngine playback.  play() is an async function: it runs until its  *)
(* first await and leaves a suspended invocation behind, which a timer     *)
(* (sleep) or a finished digest (generateContentHash, features/replay.js   *)
(* only) resumes later.  Between the two, any other call on the engine may *)
(* run.  The engine of the current page has no checkpoint digests: it is   *)
(* the engine with pCheckpoints = {}.  The speed is the default, 1.        *)
(***************************************************************************)
MAX_DELAY_MS == 3000

\* The smallest delay play() sleeps for is above this many milliseconds.
MIN_SLEEP_MS == 5

\* The fields of the engine that play() reads and writes.
Engine ==
    [state |-> pState, index |-> pIndex, content |-> pContent,
     abort |-> pAbort, applied |-> pApplied, completed |-> pCompleted]

\* The delay before the event at `index`, after the event `ev`.
PlayDelay(log, ev, index) ==
    LET delay == log[index + 1].t - log[ev + 1].t
        capped == IF delay < MAX_DELAY_MS THEN delay ELSE MAX_DELAY_MS
    IN  IF capped > 0 THEN capped ELSE 0

\* play(), after its loop: the playback is complete if it is still playing.
PlayEnd(e) ==
    IF e.state = "playing"
    THEN [e EXCEPT !.state = "stopped", !.completed = @ + 1]
    ELSE e

\* An invocation of play(): `engine` as it leaves it, and where it waits
\* ("sleep", "digest") or "done" once it has returned; `event` is its local
\* constant `event`, as a log index.
Invocation(e, pc, ev) == [engine |-> e, pc |-> pc, event |-> ev]

\* play(), from the top of its while loop (PlayLoop) and from the statement
\* after the checkpoint digest (PlayAfterApply), up to its next await or
\* its return.  `id` is the number of the invocation.
RECURSIVE PlayLoop(_, _, _, _)
RECURSIVE PlayAfterApply(_, _, _, _, _)
PlayLoop(log, checkpoints, e, id) ==
    IF e.index < Len(log)
    THEN IF e.abort = "aborted" THEN Invocation(e, "done", 0)
         ELSE IF e.state # "playing" THEN Invocation(e, "done", 0)
         ELSE LET ev == e.index
                  e1 == [e EXCEPT !.content = ReplayApply(@, log[ev + 1]),
                                  !.applied = Append(@, <<id, ev>>)]
              IN  IF ev \in checkpoints
                  THEN Invocation(e1, "digest", ev)
                  ELSE PlayAfterApply(log, checkpoints, e1, id, ev)
    ELSE Invocation(PlayEnd(e), "done", 0)

PlayAfterApply(log, checkpoints, e, id, ev) ==
    LET e2 == [e EXCEPT !.index = @ + 1]
    IN  IF /\ e2.index < Len(log)
           /\ e2.state = "playing"
           /\ PlayDelay(log, ev, e2.index) > MIN_SLEEP_MS
        THEN Invocation(e2, "sleep", ev)
        ELSE PlayLoop(log, checkpoints, e2, id)

\* play(), from its first statement, on the engine e.
play(log, checkpoints, e, id) ==
    PlayLoop(log, checkpoints,
             [e EXCEPT !.state = "playing", !.abort = "live",
                       !.applied = <<>>, !.completed = 0], id)

\* A faulty variant of pause(): without its guard.
pauseAlways(e) ==
    [e EXCEPT !.state = "paused"]

\* pause()
pause(e) ==
    IF e.state # "playing" THEN e ELSE [e EXCEPT !.state = "paused"]

\* stop()
stop(e) ==
    [e EXCEPT !.state = "stopped",
              !.abort = IF @ = "null" THEN "null" ELSE "aborted",
              !.index = 0, !.content = <<>>]

\* seekTo(index), up to its last statement.
seekTo(log, e, index) ==
    LET e1 == IF e.state = "playing" THEN pause(e) ELSE e
    IN  [e1 EXCEPT !.content = SeekContent(buildSnapshots(log, SNAPSHOT_INTERVAL),
                                           log, index),
                   !.index = index]

\* The fields a call found, for the call named `call`.
Called(call) ==
    [call |-> call, state |-> pState, index |-> pIndex, content |-> pContent,
     loops |-> Len(pLoops)]

NoCall == [call |-> "none"]

\* The engine fields after a step.
EngineBecomes(e) ==
    /\ pState' = e.state
    /\ pIndex' = e.index
    /\ pContent' = e.content
    /\ pAbort' = e.abort
    /\ pApplied' = e.applied
    /\ pCompleted' = e.completed

\* A new invocation of play() joins the others.
Started(inv) == Append(pLoops, [pc |-> inv.pc, event |-> inv.event])

\* The events of a played log: a character typed at the end or the last
\* character deleted, `gap` milliseconds after the event before.
PlaybackEvents(content, t) ==
    {[t |-> t, y |-> "i", p |-> Len(content), c |-> <<ch>>] :
        ch \in (IF Len(content) < PMaxContent THEN {PlaybackChar} ELSE {})}
    \cup
    {[t |-> t, y |-> "d", p |-> q, c |-> <<content[q + 1]>>] :
        q \in {Len(content) - 1} \cap Nat}

PAppend ==
    /\ pphase = "log"
    /\ Len(plog) < PMaxLog
    /\ \E gap \in {ShortGap, LongGap} :
         LET t == IF plog = <<>> THEN 0 ELSE plog[Len(plog)].t + gap
         IN  \E evt \in PlaybackEvents(SeekApply(plog, 0, Len(plog), <<>>), t) :
                 plog' = Append(plog, evt)
    /\ UNCHANGED <<pphase, pCheckpoints, pState, pIndex, pContent, pAbort,
                   pLoops, pApplied, pCompleted, pLast>>

\* new ReplayEngine(doc, options): with no checkpoint to report (no hash
\* chain, or no onHashCheck), or with one at the event k.
PConstruct ==
    /\ pphase = "log"
    /\ plog # <<>>
    /\ \E checkpoints \in {{}} \cup {{k} : k \in 0..(Len(plog) - 1)} :
           pCheckpoints' = checkpoints
    /\ pphase' = "engine"
    /\ EngineBecomes([state |-> "stopped", index |-> 0, content |-> <<>>,
                      abort |-> "null", applied |-> <<>>, completed |-> 0])
    /\ pLoops' = <<>>
    /\ pLast' = NoCall
    /\ UNCHANGED plog

\* engine.play()
PPlay ==
    /\ pphase = "engine"
    /\ pLast' = Called("play")
    /\ IF pState = "playing"
       THEN UNCHANGED <<pState, pIndex, pContent, pAbort, pLoops, pApplied,
                        pCompleted>>
       ELSE /\ Len(pLoops) < PMaxLoops
            /\ LET inv == play(plog, pCheckpoints, Engine, Len(pLoops) + 1)
               IN  /\ EngineBecomes(inv.engine)
                   /\ pLoops' = Started(inv)
    /\ UNCHANGED <<plog, pphase, pCheckpoints>>

\* engine.pause()
PPause ==
    /\ pphase = "engine"
    /\ pLast' = Called("pause")
    /\ EngineBecomes(pause(Engine))
    /\ UNCHANGED <<plog, pphase, pCheckpoints, pLoops>>

\* engine.resume()
PResume ==
    /\ pphase = "engine"
    /\ pLast' = Called("resume")
    /\ IF pState # "paused"
       THEN UNCHANGED <<pState, pIndex, pContent, pAbort, pLoops, pApplied,
                        pCompleted>>
       ELSE /\ Len(pLoops) < PMaxLoops
            /\ LET inv == play(plog, pCheckpoints, Engine, Len(pLoops) + 1)
               IN  /\ EngineBecomes(inv.engine)
                   /\ pLoops' = Started(inv)
    /\ UNCHANGED <<plog, pphase, pCheckpoints>>

\* engine.stop()
PStop ==
    /\ pphase = "engine"
    /\ pLast' = Called("stop")
    /\ EngineBecomes(stop(Engine))
    /\ UNCHANGED <<plog, pphase, pCheckpoints, pLoops>>

\* engine.seekTo(index), as the progress bar calls it: 0 <= index <= total.
PSeekTo ==
    /\ pphase = "engine"
    /\ pLast' = Called("seekTo")
    /\ \E index \in 0..Len(plog) :
         LET e == seekTo(plog, Engine, index)
         IN  IF pState = "playing"
             THEN /\ Len(pLoops) < PMaxLoops
                  /\ LET inv == play(plog, pCheckpoints, e, Len(pLoops) + 1)
                     IN  /\ EngineBecomes(inv.engine)
                         /\ pLoops' = Started(inv)
             ELSE /\ EngineBecomes(e)
                  /\ UNCHANGED pLoops
    /\ UNCHANGED <<plog, pphase, pCheckpoints>>

\* The invocation l of play() after its await: the timer of sleep() fired,
\* or the digest of the checkpoint is there and onHashCheck was called.
Resumed(l) ==
    IF pLoops[l].pc = "sleep"
    THEN PlayLoop(plog, pCheckpoints, Engine, l)
    ELSE PlayAfterApply(plog, pCheckpoints, Engine, l, pLoops[l].event)

PWakeOf(l) ==
    /\ pLoops[l].pc \in {"sleep", "digest"}
    /\ LET inv == Resumed(l)
       IN  /\ EngineBecomes(inv.engine)
           /\ pLoops' = [pLoops EXCEPT ![l] = [pc |-> inv.pc, event |-> inv.event]]
    /\ pLast' = NoCall
    /\ UNCHANGED <<plog, pphase, pCheckpoints>>

PWake == \E l \in 1..Len(pLoops) : PWakeOf(l)

\* The parts of the program this specification leaves alone.
PlaybackFrame == UNCHANGED <<verVars, repVars, expVars, recVars, asyVars, queVars, edVars>>

NextPlayback ==
    \/ PAppend /\ PlaybackFrame
    \/ PConstruct /\ PlaybackFrame
    \/ PPlay /\ PlaybackFrame
    \/ PPause /\ PlaybackFrame
    \/ PResume /\ PlaybackFrame
    \/ PStop /\ PlaybackFrame
    \/ PSeekTo /\ PlaybackFrame
    \/ PWake /\ PlaybackFrame

SpecPlayback == Init /\ [][NextPlayback]_vars

\* The timers of sleep() fire and the digests finish.
SpecPlaybackFair == SpecPlayback /\ WF_vars(PWake /\ PlaybackFrame)

(***************************************************************************)
(* The Editor (core/editor.js) over the document store (core/storage.js),  *)
(* driven by the handlers of main.js.  localStorage holds the JSON text of *)
(* the store object; an object is the sequence of its <<key, value>>       *)
(* entries in insertion order, and the text of a store is that object      *)
(* wrapped as one item.  save() is an async function: it waits at          *)
(* `await ready` (hashReady is not a property of the recorder, so it       *)
(* awaits undefined) and goes on when the handler that called it has       *)
(* returned, before any other event is handled.                            *)
(***************************************************************************)
SCHEMA_VERSION == 1

Null == [null |-> TRUE]

\* The ids generateUUID hands out, in order.
DocumentIds == 1..EMaxDocs

\* getStore: the stored object, or an empty store when there is no item.
getStore(storage) ==
    IF storage = <<>>
    THEN [version |-> SCHEMA_VERSION, documents |-> <<>>]
    ELSE storage[1]

\* setStore: the item afterwards; it is not written when the quota is
\* exceeded (ok = FALSE).
setStore(storage, store, ok) == IF ok THEN <<store>> ELSE storage

\* The keys of an object.
Keys(documents) == {documents[k][1] : k \in 1..Len(documents)}

\* documents[id]
GetEntry(documents, id) ==
    IF id \in Keys(documents)
    THEN LET k == CHOOSE j \in 1..Len(documents) : documents[j][1] = id
         IN  documents[k][2]
    ELSE Null

\* documents[id] = doc
SetEntry(documents, id, doc) ==
    IF id \in Keys(documents)
    THEN [k \in 1..Len(documents) |->
            IF documents[k][1] = id THEN <<id, doc>> ELSE documents[k]]
    ELSE Append(documents, <<id, doc>>)

\* delete documents[id]
DeleteEntry(documents, id) == SelectSeq(documents, LAMBDA entry : entry[1] # id)

\* A faulty variant of saveDocument: the store is written with this document
\* alone.
saveDocumentAlone(storage, doc, ok) ==
    setStore(storage, [version |-> SCHEMA_VERSION,
                       documents |-> <<<<doc.id, doc>>>>], ok)

\* saveDocument(doc): the item afterwards (it returns ok).
saveDocument(storage, doc, ok) ==
    LET store == getStore(storage)
    IN  setStore(storage,
                 [store EXCEPT !.documents = SetEntry(@, doc.id, doc)], ok)

\* loadDocument(id)
loadDocument(storage, id) == GetEntry(getStore(storage).documents, id)

\* deleteDocument(id): the item afterwards.
deleteDocument(storage, id) ==
    LET store == getStore(storage)
    IN  setStore(storage,
                 [store EXCEPT !.documents = DeleteEntry(@, id)], TRUE)

\* A faulty variant of the end of save(): the flag is cleared whatever
\* saveDocument returned.
DirtyCleared(dirty, ok) ==
    FALSE

\* save(): `if (ok) this._dirty = false`.
DirtyAfterSave(dirty, ok) ==
    IF ok THEN FALSE ELSE dirty

\* destroy(): `if (this._dirty) this.save()`; save() returns at once when
\* there is no document.  The invocation is noted with the document the
\* editor held when it began.
DestroySaves ==
    IF eDirty /\ eDoc # Null THEN <<[by |-> "destroy", of |-> eDoc]>> ELSE <<>>

\* createDocument(): the new, empty document.
CreatedDocument(id) == [id |-> id, keystrokeLog |-> <<>>, content |-> <<>>]

\* No invocation of save() is waiting: the event loop takes the next event.
Idle == eSaves = <<>>

\* The New button: editor.destroy(); editor.createDocument().
ENew ==
    /\ Idle
    /\ eNextId \in DocumentIds
    /\ eDoc' = CreatedDocument(eNextId)
    /\ eNextId' = eNextId + 1
    /\ eDirty' = TRUE
    /\ eSaves' = DestroySaves \o <<[by |-> "create", of |-> eDoc']>>
    /\ eLast' = [op |-> "new", id |-> 0]
    /\ UNCHANGED <<eStorage, eRecent>>

\* Open in the list of documents: editor.destroy(); editor.loadDocument(id),
\* for a document of listDocuments().
EOpen ==
    /\ Idle
    /\ eDoc # Null
    /\ \E id \in Keys(getStore(eStorage).documents) :
        /\ eDoc' = loadDocument(eStorage, id)
        /\ eLast' = [op |-> "open", id |-> 0]
    /\ eSaves' = DestroySaves
    /\ UNCHANGED <<eDirty, eStorage, eRecent, eNextId>>

\* Delete in the list of documents: deleteDocument(id) and, if it was the
\* current document, editor.destroy(); editor.createDocument().
EDelete ==
    /\ Idle
    /\ eDoc # Null
    /\ \E id \in Keys(getStore(eStorage).documents) :
        /\ eStorage' = deleteDocument(eStorage, id)
        /\ eRecent' = [eRecent EXCEPT ![id] = Null]
        /\ eLast' = [op |-> "delete", id |-> id]
        /\ IF eDoc.id = id /\ eNextId \in DocumentIds
           THEN /\ eDoc' = CreatedDocument(eNextId)
                /\ eNextId' = eNextId + 1
                /\ eDirty' = TRUE
                /\ eSaves' = DestroySaves \o <<[by |-> "create", of |-> eDoc']>>
           ELSE /\ eDoc.id # id
                /\ UNCHANGED <<eDoc, eNextId, eDirty, eSaves>>

\* A character typed at the end of the text: the recorder pushes the event,
\* sets doc.content, and its onKeystroke callback sets the dirty flag.
EKeystroke ==
    /\ Idle
    /\ eDoc # Null
    /\ Len(eDoc.content) < EMaxText
    /\ LET evt == [t |-> 0, y |-> "i", p |-> Len(eDoc.content),
                   c |-> <<PlaybackChar>>]
       IN  eDoc' = [eDoc EXCEPT !.keystrokeLog = Append(@, evt),
                                !.content = Append(@, PlaybackChar)]
    /\ eDirty' = TRUE
    /\ eLast' = [op |-> "keystroke", id |-> 0]
    /\ UNCHANGED <<eSaves, eStorage, eRecent, eNextId>>

\* The auto-save timer: `if (this._dirty) this.save()`.
EAutoSave ==
    /\ Idle
    /\ eDoc # Null
    /\ eDirty
    /\ eSaves' = <<[by |-> "timer", of |-> eDoc]>>
    /\ eLast' = [op |-> "tick", id |-> 0]
    /\ UNCHANGED <<eDoc, eDirty, eStorage, eRecent, eNextId>>

\* save() after `await ready`: saveDocument(this._doc), which fails when the
\* quota is exceeded, and `if (ok) this._dirty = false`.
ESaveResume ==
    /\ eSaves # <<>>
    /\ \E ok \in BOOLEAN :
        /\ eStorage' = saveDocument(eStorage, eDoc, ok)
        /\ eDirty' = DirtyAfterSave(eDirty, ok)
        /\ eRecent' = IF ok THEN [eRecent EXCEPT ![eDoc.id] = eDoc] ELSE eRecent
        /\ eLast' = [op |-> "saved", id |-> eDoc.id, by |-> Head(eSaves).by,
                     of |-> Head(eSaves).of, returned |-> ok,
                     dirty |-> eDirty]
    /\ eSaves' = Tail(eSaves)
    /\ UNCHANGED <<eDoc, eNextId>>

\* The parts of the program this specification leaves alone.
EditorFrame == UNCHANGED <<verVars, repVars, expVars, recVars, asyVars, queVars, plaVars>>

NextEditor ==
    \/ ENew /\ EditorFrame
    \/ EOpen /\ EditorFrame
    \/ EDelete /\ EditorFrame
    \/ EKeystroke /\ EditorFrame
    \/ EAutoSave /\ EditorFrame
    \/ ESaveResume /\ EditorFrame

SpecEditor == Init /\ [][NextEditor]_vars

(***************************************************************************)
(* features/export.js.  A JavaScript object is a function from its         *)
(* property names to their values; a property that is undefined is not in  *)
(* the domain.                                                             *)
(***************************************************************************)
Has(obj, name) == name \in DOMAIN obj

\* JavaScript's value || fallback.  For a name or date (a string here) and
\* for a text or digest (a sequence here) undefined and '' are falsy; for an
\* array only undefined is.
NameOrElse(obj, name, fallback) ==
    IF Has(obj, name) /\ obj[name] # "" THEN obj[name] ELSE fallback

TextOrElse(obj, name, fallback) ==
    IF Has(obj, name) /\ obj[name] # <<>> THEN obj[name] ELSE fallback

ArrayOrElse(obj, name, fallback) ==
    IF Has(obj, name) THEN obj[name] ELSE fallback

\* The object literal with the given property names, each read from obj; a
\* property obj does not have is undefined.
Pick(obj, names) == [n \in (names \cap DOMAIN obj) |-> obj[n]]

\* exportToJSON / generateShareURL: the exportData literal.
ExportedProperties ==
    {"id", "title", "createdAt", "lastModified", "content", "keystrokeLog",
     "chainHash", "metadata"}

\* A faulty variant of the export: the literal of the older schema, which
\* carries no chainHash.
ExportDataWithoutChain(doc) ==
    ("version" :> "1.0")
    @@ ("links" :> ArrayOrElse(doc, "links", <<>>))
    @@ Pick(doc, ExportedProperties \ {"chainHash"})

ExportData(doc) ==
    ("version" :> "2.0")
    @@ ("links" :> ArrayOrElse(doc, "links", <<>>))
    @@ Pick(doc, ExportedProperties)

\* JSON.stringify: the properties in a fixed order, as <<name, value, type>>
\* triples, the type being that of the JSON value written ("array",
\* "object", "string" or "null"); an undefined property is left out.
\* JSON.parse reads the triples back: the parsed object has the properties,
\* and under "typeof" the type of each.
PropertyOrder ==
    <<"version", "id", "title", "createdAt", "lastModified", "content", "links",
      "keystrokeLog", "chainHash", "metadata">>

\* The type of the value a document holds under each property.
JsTypeOf(name) ==
    IF name \in {"links", "keystrokeLog"} THEN "array"
    ELSE IF name = "metadata" THEN "object"
    ELSE "string"

JSONstringify(obj) ==
    LET present == SelectSeq(PropertyOrder, LAMBDA n : n \in DOMAIN obj)
    IN  [j \in 1..Len(present) |->
            <<present[j], obj[present[j]], JsTypeOf(present[j])>>]

JSONparse(text) ==
    LET names == {text[j][1] : j \in 1..Len(text)}
        entry(n) == text[CHOOSE j \in 1..Len(text) : text[j][1] = n]
    IN  [n \in names |-> entry(n)[2]]
        @@ ("typeof" :> [n \in names |-> entry(n)[3]])

\* !data[name]: the property is undefined, null or the empty string.
Falsy(data, name) ==
    \/ ~Has(data, name)
    \/ data.typeof[name] = "null"
    \/ (data.typeof[name] = "string" /\ data[name] = <<>>)

\* Array.isArray(data[name])
IsArray(data, name) == Has(data, name) /\ data.typeof[name] = "array"

\* The parsed file has no keystrokeLog that is an array: the file XEdit
\* leaves, never the file an export writes.
NoArrayLog(text) == ~IsArray(JSONparse(text), "keystrokeLog")

\* validateImport(data): the normalized document, or the error thrown.
ImportError(message) == [ok |-> FALSE, error |-> message]

\* A faulty variant of validateImport: any keystrokeLog property passes.
validateImportAnyLog(data) ==
    IF ~Has(data, "id") \/ data.id = "" THEN ImportError("Missing document id")
    ELSE IF ~Has(data, "keystrokeLog")
    THEN ImportError("Missing or invalid keystrokeLog")
    ELSE [ok |-> TRUE,
          doc |-> [id |-> data.id,
                   title |-> NameOrElse(data, "title", "Imported Document"),
                   createdAt |-> NameOrElse(data, "createdAt", "now"),
                   lastModified |-> NameOrElse(data, "lastModified", "now"),
                   content |-> TextOrElse(data, "content", <<>>),
                   links |-> ArrayOrElse(data, "links", <<>>),
                   keystrokeLog |-> data.keystrokeLog,
                   chainHash |-> TextOrElse(data, "chainHash", EmptyHash),
                   metadata |->
                       IF Has(data, "metadata") THEN data.metadata
                       ELSE [totalKeystrokes |-> Len(data.keystrokeLog),
                             totalTime |-> 0,
                             wordCount |-> 0,
                             characterCount |-> Len(TextOrElse(data, "content", <<>>))]]]

validateImport(data) ==
    IF ~Has(data, "id") \/ data.id = "" THEN ImportError("Missing document id")
    ELSE IF Falsy(data, "keystrokeLog") \/ ~IsArray(data, "keystrokeLog")
    THEN ImportError("Missing or invalid keystrokeLog")
    ELSE [ok |-> TRUE,
          doc |-> [id |-> data.id,
                   title |-> NameOrElse(data, "title", "Imported Document"),
                   createdAt |-> NameOrElse(data, "createdAt", "now"),
                   lastModified |-> NameOrElse(data, "lastModified", "now"),
                   content |-> TextOrElse(data, "content", <<>>),
                   links |-> ArrayOrElse(data, "links", <<>>),
                   keystrokeLog |-> data.keystrokeLog,
                   chainHash |-> TextOrElse(data, "chainHash", EmptyHash),
                   metadata |->
                       IF Has(data, "metadata") THEN data.metadata
                       ELSE [totalKeystrokes |-> Len(data.keystrokeLog),
                             totalTime |-> 0,
                             wordCount |-> 0,
                             characterCount |-> Len(TextOrElse(data, "content", <<>>))]]]

importFromString(jsonString) == validateImport(JSONparse(jsonString))

\* Editor.createDocument: the new document.
NewDocument(title) ==
    [id |-> "doc-1", title |-> title, createdAt |-> "t0", lastModified |-> "t0",
     content |-> <<>>, links |-> <<>>, keystrokeLog |-> <<>>,
     chainHash |-> EmptyHash,
     metadata |-> [totalKeystrokes |-> 0, totalTime |-> 0, wordCount |-> 0,
                   characterCount |-> 0]]

\* The events recorded into the exported document: {t, y, p, c}, and
\* {t, y, p} for a cursor move.
ExportableEvents(content, t) ==
    {[t |-> t, y |-> "i", p |-> Len(content), c |-> <<ch>>] :
        ch \in (IF Len(content) < XMaxContent THEN Chars ELSE {})}
    \cup
    {[t |-> t, y |-> "d", p |-> q, c |-> <<content[q + 1]>>] :
        q \in {Len(content) - 1} \cap Nat}
    \cup
    {[t |-> t, y |-> "m", p |-> 0]}

XCreate ==
    /\ xphase = "idle"
    /\ \E title \in {"", "Essay"} : xdoc' = NewDocument(title)
    /\ xphase' = "doc"
    /\ UNCHANGED <<xjson, ximported, xresults>>

\* An event is recorded; its chain hashing has completed (hashed) or is still
\* pending, in which case chainHash keeps its earlier value.
XRecord ==
    /\ xphase = "doc"
    /\ Len(xdoc.keystrokeLog) < XMaxLog
    /\ \E evt \in ExportableEvents(xdoc.content, Len(xdoc.keystrokeLog)),
          hashed \in BOOLEAN :
        LET log2 == Append(xdoc.keystrokeLog, evt)
        IN  xdoc' = [xdoc EXCEPT
                !.keystrokeLog = log2,
                !.content = ReplayApply(@, evt),
                !.chainHash = IF hashed THEN ChainOver(log2) ELSE @,
                !.metadata.totalKeystrokes = Len(log2),
                !.metadata.characterCount = Len(ReplayApply(xdoc.content, evt))]
    /\ UNCHANGED <<xphase, xjson, ximported, xresults>>

\* exportToJSON(doc) / generateShareURL(doc): the JSON text.
XExport ==
    /\ xphase = "doc"
    /\ xjson' = JSONstringify(ExportData(xdoc))
    /\ xphase' = "exported"
    /\ UNCHANGED <<xdoc, ximported, xresults>>

\* The values a hand-edited file can hold under keystrokeLog that are not
\* arrays: null, a string, the empty string, an object.
NonArrayValues ==
    <<<<<<>>, "null">>, <<<<"a">>, "string">>, <<<<>>, "string">>,
      <<[length |-> 1], "object">>>>

\* The exported file is edited by hand before it is imported: its
\* keystrokeLog property is removed, or replaced by a value that is not an
\* array.
XEdit ==
    /\ xphase = "exported"
    /\ \/ xjson' = SelectSeq(xjson, LAMBDA e : e[1] # "keystrokeLog")
       \/ \E k \in 1..Len(NonArrayValues) :
              xjson' = [j \in 1..Len(xjson) |->
                           IF xjson[j][1] = "keystrokeLog"
                           THEN <<"keystrokeLog", NonArrayValues[k][1],
                                  NonArrayValues[k][2]>>
                           ELSE xjson[j]]
    /\ xphase' = "edited"
    /\ UNCHANGED <<xdoc, ximported, xresults>>

\* importFromJSON / importFromString of the file.
XImport ==
    /\ xphase \in {"exported", "edited"}
    /\ ximported' = importFromString(xjson)
    /\ xphase' = "imported"
    /\ UNCHANGED <<xdoc, xjson, xresults>>

\* The verify page: the imported document is loaded and btn-verify calls
\* verifyDocument(currentDoc).
XVerify ==
    /\ xphase = "imported"
    /\ ximported.ok
    /\ xresults' = verifyDocument(ximported.doc)
    /\ xphase' = "verified"
    /\ UNCHANGED <<xdoc, xjson, ximported>>

\* The parts of the program this specification leaves alone.
ExportFrame == UNCHANGED <<verVars, repVars, recVars, asyVars, queVars, plaVars, edVars>>

NextExport ==
    \/ XCreate /\ ExportFrame
    \/ XRecord /\ ExportFrame
    \/ XExport /\ ExportFrame
    \/ XEdit /\ ExportFrame
    \/ XImport /\ ExportFrame
    \/ XVerify /\ ExportFrame

SpecExport == Init /\ [][NextExport]_vars

(***************************************************************************)
(* core/keystroke.js: how _handleInput turns one input event into log      *)
(* events.  The browser delivers beforeinput, changes the element and      *)
(* delivers input within one task.                                         *)
(***************************************************************************)
KeyChars == {"a"}

\* The texts a paste or a replacement can carry.
PastedTexts == {<<ch>> : ch \in KeyChars} \cup {<<c1, c2>> : c1 \in KeyChars, c2 \in KeyChars}

DeleteInputTypes ==
    {"deleteContentBackward", "deleteContentForward", "deleteByCut",
     "deleteWordBackward", "deleteWordForward", "deleteSoftLineBackward"}

InsertInputTypes == {"insertText", "insertLineBreak", "insertParagraph"}

\* What the user does to the element: the inputType of the event, its data,
\* and whether it came through the paste handler.
Gestures ==
    {[inputType |-> "insertText", data |-> <<ch>>, paste |-> FALSE] : ch \in KeyChars}
    \cup {[inputType |-> "insertText", data |-> txt, paste |-> TRUE] : txt \in PastedTexts}
    \cup {[inputType |-> ty, data |-> <<>>, paste |-> FALSE] :
            ty \in {"deleteContentBackward", "deleteContentForward",
                    "deleteHardLineBackward"}}
    \cup {[inputType |-> ty, data |-> <<ch>>, paste |-> FALSE] :
            ty \in {"insertReplacementText", "insertCompositionText"}, ch \in KeyChars}

\* The gestures of plain typing: a character typed, a backward deletion.
TypingGestures ==
    {g \in Gestures : g.inputType \in {"insertText", "deleteContentBackward"}
                      /\ ~g.paste}

IsDeletion(inputType) ==
    inputType \in DeleteInputTypes \cup {"deleteHardLineBackward"}

\* The range of the text a deletion removes: the selection, or else the
\* character before or after the caret, or the line up to the caret.
DeletedRange(g, dom) ==
    IF dom.selEnd > dom.selStart THEN <<dom.selStart, dom.selEnd>>
    ELSE IF g.inputType = "deleteContentBackward" THEN <<dom.selStart - 1, dom.selStart>>
    ELSE IF g.inputType = "deleteContentForward" THEN <<dom.selStart, dom.selStart + 1>>
    ELSE <<0, dom.selStart>>

\* The gesture changes the element.
GestureEnabled(g, dom) ==
    IF IsDeletion(g.inputType)
    THEN /\ DeletedRange(g, dom)[1] >= 0
         /\ DeletedRange(g, dom)[2] <= Len(dom.text)
         /\ DeletedRange(g, dom)[1] < DeletedRange(g, dom)[2]
    ELSE /\ Len(dom.text) - (dom.selEnd - dom.selStart) + Len(g.data) <= KMaxText
         /\ (g.inputType = "insertReplacementText" => dom.selEnd > dom.selStart)

\* The element after the browser applied the gesture: the selection is
\* replaced or removed and the caret is collapsed behind the change.
DomAfter(g, dom) ==
    IF IsDeletion(g.inputType)
    THEN [text |-> Slice(dom.text, 0, DeletedRange(g, dom)[1])
                     \o SliceFrom(dom.text, DeletedRange(g, dom)[2]),
          selStart |-> DeletedRange(g, dom)[1],
          selEnd |-> DeletedRange(g, dom)[1]]
    ELSE [text |-> Slice(dom.text, 0, dom.selStart) \o g.data
                     \o SliceFrom(dom.text, dom.selEnd),
          selStart |-> dom.selStart + Len(g.data),
          selEnd |-> dom.selStart + Len(g.data)]

\* this._prevSelEnd ?? selStart, with undefined as <<>> and a number n as <<n>>.
SelEndOr(prevSelEnd, selStart) ==
    IF prevSelEnd = <<>> THEN selStart ELSE prevSelEnd[1]

\* An event as _handleInput builds it.  Both recorders build the same events:
\* core/keystroke.js keeps {t, y, p, c}, the recorder in core/editor.js keeps
\* {timestamp, type, position, char, length}.
BuiltEvent(t, y, p, c, length) == [t |-> t, y |-> y, p |-> p, c |-> c, length |-> length]

KeyEvent(e) == [t |-> e.t, y |-> e.y, p |-> e.p, c |-> e.c]

LegacyType(y) == IF y = "i" THEN "insert" ELSE IF y = "d" THEN "delete" ELSE "paste"

LegacyEvent(e) ==
    [timestamp |-> e.t, type |-> LegacyType(e.y), position |-> e.p, char |-> e.c,
     length |-> e.length]

\* The delete event of a replaced selection, if there was one.
SelectionDelete(t, prevValue, selStart, selEnd) ==
    IF selEnd - selStart > 0
    THEN <<BuiltEvent(t, "d", selStart, Slice(prevValue, selStart, selEnd),
                      selEnd - selStart)>>
    ELSE <<>>

\* _handleInput: the events built for one input event.  currentStart is
\* getSelectionOffsets(textarea).start after the change.
BuildEvents(inputType, data, isPaste, t, newValue, prevValue, selStart, selEnd, currentStart) ==
    LET selectedLen == selEnd - selStart
        lenDiff == Len(newValue) - Len(prevValue)
    IN  IF isPaste
        THEN LET pastedText == Slice(newValue, selStart, selStart + (lenDiff + selectedLen))
             IN  SelectionDelete(t, prevValue, selStart, selEnd)
                 \o <<BuiltEvent(t, "p", selStart, pastedText, Len(pastedText))>>
        ELSE IF inputType \in DeleteInputTypes
        THEN LET deletedLen == Len(prevValue) - Len(newValue)
                 deletePos == IF inputType \in {"deleteContentForward", "deleteWordForward"}
                              THEN selStart
                              ELSE selStart - deletedLen + selectedLen
                 actualPos == Max(0, IF selectedLen > 0 THEN selStart ELSE deletePos)
                 deletedChars == Slice(prevValue, actualPos,
                                       actualPos + deletedLen + selectedLen)
             IN  <<BuiltEvent(t, "d", actualPos, deletedChars, Len(deletedChars))>>
        ELSE IF inputType \in InsertInputTypes
        THEN LET insertedChar == IF inputType = "insertText" THEN data ELSE <<"\n">>
             IN  SelectionDelete(t, prevValue, selStart, selEnd)
                 \o <<BuiltEvent(t, "i", selStart, insertedChar, Len(insertedChar))>>
        ELSE IF inputType = "insertReplacementText"
        THEN LET inserted == Slice(newValue, selStart, currentStart)
             IN  SelectionDelete(t, prevValue, selStart, selEnd)
                 \o (IF inserted # <<>>
                     THEN <<BuiltEvent(t, "i", selStart, inserted, Len(inserted))>>
                     ELSE <<>>)
        ELSE IF lenDiff > 0
        THEN LET inserted == Slice(newValue, selStart, selStart + lenDiff + selectedLen)
             IN  SelectionDelete(t, prevValue, selStart, selEnd)
                 \o <<BuiltEvent(t, "i", selStart, inserted, Len(inserted))>>
        ELSE IF lenDiff < 0
        THEN LET deletePos == IF selectedLen > 0 THEN selStart ELSE currentStart
             IN  <<BuiltEvent(t, "d", deletePos,
                     Slice(prevValue, deletePos, deletePos + (-lenDiff) + selectedLen),
                     (-lenDiff) + selectedLen)>>
        ELSE <<>>

(***************************************************************************)
(* The editor with its recorder: Editor (core/editor.js), KeystrokeRecorder *)
(* (core/keystroke.js), the handlers of main.js and storage.js.  Of the    *)
(* document the log, the content and the chain head are kept.              *)
(*                                                                         *)
(* _hashQueue is a promise chain: a task starts when the one queued before *)
(* it has finished, and a digest is in flight for the next event of the    *)
(* first unfinished task.  A task rejected by a failed digest leaves the   *)
(* chain rejected, and a rejected chain runs no task queued behind it.     *)
(***************************************************************************)
\* new KeystrokeRecorder(textarea, doc) followed by start().
NewRecorder(dom, doc, now) ==
    [sessionStart |-> now,
     prevValue |-> dom.text,
     prevSelStart |-> dom.selStart,
     prevSelEnd |-> <<>>,
     isPaste |-> FALSE,
     prevHash |-> IF doc.chainHash = EmptyHash THEN GenesisHash ELSE doc.chainHash,
     queueRejected |-> FALSE]

\* A faulty variant of the queue: the task queued last runs first.
HashQueueLast(queue) == Len(queue)

\* The position in _hashQueue of the task whose digest is in flight.
HashQueueHead(queue) == 1

RemoveAt(seq, i) == SubSeq(seq, 1, i - 1) \o SubSeq(seq, i + 1, Len(seq))

\* The log index of the event whose digest is in flight, 0 when none is.
InFlight(queue) ==
    IF queue = <<>> THEN 0
    ELSE queue[HashQueueHead(queue)].batch[queue[HashQueueHead(queue)].hashed + 1]

\* this._hashQueue = this._hashQueue.then(task)
Enqueue(queue, rec, kind, batch) ==
    IF rec.queueRejected THEN queue
    ELSE Append(queue, [kind |-> kind, batch |-> batch, hashed |-> 0])

\* Where the hashing of newly pushed events stands.
QueuedStatus(rec) == IF rec.queueRejected THEN "skipped" ELSE "pending"

\* saveDocument(doc) at the end of Editor.save: the store takes the document
\* unless the quota is exceeded.
Saved(store, doc, ok) == IF ok THEN doc ELSE store

\* performance.now() advances.
KTick ==
    /\ know < KMaxTime
    /\ know' = know + 1
    /\ UNCHANGED <<kdom, krec, kdoc, kqueue, kstore, kexported, kdirty, khash>>

\* A paste or an input gesture: _handlePaste, _handleBeforeInput, the change
\* of the element, _handleInput and the onKeystroke callback of the editor.
KInputOf(maxLog) ==
    \E g \in Gestures :
        /\ GestureEnabled(g, kdom)
        /\ LET before == [krec EXCEPT !.isPaste = (@ \/ g.paste),
                                      !.prevValue = kdom.text,
                                      !.prevSelStart = kdom.selStart,
                                      !.prevSelEnd = <<kdom.selEnd>>]
               dom2 == DomAfter(g, kdom)
               t == know - before.sessionStart
               built == BuildEvents(g.inputType, g.data,
                            g.inputType = "insertFromPaste" \/ before.isPaste,
                            t, dom2.text, before.prevValue, before.prevSelStart,
                            SelEndOr(before.prevSelEnd, before.prevSelStart),
                            dom2.selStart)
               events == [j \in 1..Len(built) |-> KeyEvent(built[j])]
               n == Len(kdoc.keystrokeLog)
           IN  /\ n + Len(events) <= maxLog
               /\ kdom' = dom2
               /\ krec' = [before EXCEPT !.isPaste = FALSE,
                                         !.prevValue = dom2.text,
                                         !.prevSelStart = dom2.selStart,
                                         !.prevSelEnd = <<dom2.selEnd>>]
               /\ kdoc' = [kdoc EXCEPT !.content = dom2.text,
                                       !.keystrokeLog = @ \o events]
               /\ kqueue' = IF events = <<>> THEN kqueue
                            ELSE Enqueue(kqueue, krec, "input",
                                         [j \in 1..Len(events) |-> n + j])
               /\ khash' = khash \o [j \in 1..Len(events) |-> QueuedStatus(krec)]
               /\ kdirty' = (kdirty \/ events # <<>>)
        /\ UNCHANGED <<know, kstore, kexported>>

KInput == KInputOf(KMaxLog)

\* The user moves the caret or selects a range with the mouse or a navigation
\* key: _handleMouseUp / _handleKeyUp, _recordCursorMove, _handleSelect.
KCursorMoveOf(maxLog) ==
    \E s \in 0..Len(kdom.text), e \in 0..Len(kdom.text) :
        /\ s <= e
        /\ <<s, e>> # <<kdom.selStart, kdom.selEnd>>
        /\ kdom' = [kdom EXCEPT !.selStart = s, !.selEnd = e]
        /\ IF s = krec.prevSelStart
           THEN UNCHANGED <<krec, kdoc, kqueue, khash, kdirty>>
           ELSE LET event == [t |-> know - krec.sessionStart, y |-> "m", p |-> s]
                    n == Len(kdoc.keystrokeLog)
                IN  /\ n < maxLog
                    /\ krec' = [krec EXCEPT !.prevSelStart = s]
                    /\ kdoc' = [kdoc EXCEPT !.keystrokeLog = Append(@, event)]
                    /\ kqueue' = Enqueue(kqueue, krec, "move", <<n + 1>>)
                    /\ khash' = Append(khash, QueuedStatus(krec))
                    /\ kdirty' = TRUE
        /\ UNCHANGED <<know, kstore, kexported>>

KCursorMove == KCursorMoveOf(KMaxLog)

\* The digest in flight completes: the task takes the new chain value and
\* either starts the digest of its next event or writes doc.chainHash and ends.
KDigestDone ==
    /\ kqueue # <<>>
    /\ LET h == HashQueueHead(kqueue)
           task == kqueue[h]
           idx == task.batch[task.hashed + 1]
           newHash == computeEventHash(krec.prevHash, kdoc.keystrokeLog[idx])
           last == (task.hashed + 1 = Len(task.batch))
       IN  /\ krec' = [krec EXCEPT !.prevHash = newHash]
           /\ kdoc' = IF last THEN [kdoc EXCEPT !.chainHash = newHash] ELSE kdoc
           /\ kqueue' = IF last THEN RemoveAt(kqueue, h)
                        ELSE [kqueue EXCEPT ![h].hashed = @ + 1]
           /\ khash' = [khash EXCEPT ![idx] = "done"]
    /\ UNCHANGED <<know, kdom, kstore, kexported, kdirty>>

\* The digest in flight fails.  The task of an input catches the error and
\* ends without hashing the rest of its batch; the task of a cursor move
\* rejects, and the chain runs none of the tasks queued behind it.
KDigestFail ==
    /\ kqueue # <<>>
    /\ LET h == HashQueueHead(kqueue)
           task == kqueue[h]
           idx == task.batch[task.hashed + 1]
       IN  IF task.kind = "input"
           THEN /\ kqueue' = RemoveAt(kqueue, h)
                /\ khash' = [j \in 1..Len(khash) |->
                                IF j = idx THEN "failed"
                                ELSE IF \E m \in (task.hashed + 2)..Len(task.batch) :
                                            task.batch[m] = j
                                THEN "skipped" ELSE khash[j]]
                /\ UNCHANGED krec
           ELSE /\ kqueue' = <<>>
                /\ khash' = [j \in 1..Len(khash) |->
                                IF j = idx THEN "failed"
                                ELSE IF khash[j] = "pending" THEN "skipped"
                                ELSE khash[j]]
                /\ krec' = [krec EXCEPT !.queueRejected = TRUE]
    /\ UNCHANGED <<know, kdom, kdoc, kstore, kexported, kdirty>>

\* The auto-save timer fires: if (this._dirty) this.save().  hashReady is not
\* a property of the recorder, so save awaits undefined and goes on in the
\* same turn of the event loop.
KAutoSave ==
    /\ kdirty
    /\ \E ok \in BOOLEAN :
        /\ kstore' = Saved(kstore, kdoc, ok)
        /\ kdirty' = (kdirty /\ ~ok)
    /\ UNCHANGED <<know, kdom, krec, kdoc, kqueue, kexported, khash>>

\* The Export button: editor.save() is called and not awaited, exportToJSON
\* takes the document, and then save goes on to saveDocument.
KExport ==
    /\ kexported' = <<kdoc>>
    /\ \E ok \in BOOLEAN :
        /\ kstore' = Saved(kstore, kdoc, ok)
        /\ kdirty' = (kdirty /\ ~ok)
    /\ UNCHANGED <<know, kdom, krec, kdoc, kqueue, khash>>

\* The document is opened again from the list: editor.destroy() and
\* editor.loadDocument(id).  The new document is the stored copy, the element
\* is rendered from it, and a new recorder is started; the save that destroy
\* began goes on after the handler and stores the document then current.
KReload ==
    /\ LET dom2 == [text |-> kstore.content, selStart |-> 0, selEnd |-> 0]
       IN  /\ kdoc' = kstore
           /\ kdom' = dom2
           /\ krec' = NewRecorder(dom2, kstore, know)
           /\ kqueue' = <<>>
           /\ khash' = [j \in 1..Len(kstore.keystrokeLog) |-> "loaded"]
    /\ \E ok \in BOOLEAN :
        /\ kstore' = Saved(kstore, kstore, ok)
        /\ kdirty' = (kdirty /\ ~ok)
    /\ UNCHANGED <<know, kexported>>

\* KeystrokeRecorder.resetSessionStart()
KResetSessionStart ==
    /\ krec' = [krec EXCEPT !.sessionStart = know]
    /\ UNCHANGED <<know, kdom, kdoc, kqueue, kstore, kexported, kdirty, khash>>

\* The parts of the program this specification leaves alone.
RecorderFrame == UNCHANGED <<verVars, repVars, expVars, asyVars, queVars, plaVars, edVars>>

NextRecorder ==
    \/ KTick /\ RecorderFrame
    \/ KInput /\ RecorderFrame
    \/ KCursorMove /\ RecorderFrame
    \/ KDigestDone /\ RecorderFrame
    \/ KDigestFail /\ RecorderFrame
    \/ KAutoSave /\ RecorderFrame
    \/ KExport /\ RecorderFrame
    \/ KReload /\ RecorderFrame
    \/ KResetSessionStart /\ RecorderFrame

SpecRecorder == Init /\ [][NextRecorder]_vars

\* The recorder alone, over a longer log: input, cursor moves and the
\* digests of the hash queue, which all settle in the end.
NextHashQueue ==
    \/ KInputOf(HMaxLog) /\ RecorderFrame
    \/ KCursorMoveOf(HMaxLog) /\ RecorderFrame
    \/ KDigestDone /\ RecorderFrame
    \/ KDigestFail /\ RecorderFrame

SpecHashQueue ==
    /\ Init
    /\ [][NextHashQueue]_vars
    /\ WF_vars((KDigestDone \/ KDigestFail) /\ RecorderFrame)

(***************************************************************************)
(* The KeystrokeRecorder of core/editor.js.  Its _handleInput is an async  *)
(* function: it runs up to its first await and returns to the dispatcher;  *)
(* what follows the await runs when the awaited digest settles.            *)
(***************************************************************************)
\* The events of all waiting invocations that are not in the log yet.
NotYetPushed(handlers) ==
    LET RECURSIVE Count(_)
        Count(j) == IF j = 0 THEN 0
                    ELSE Count(j - 1)
                         + (Len(handlers[j].events)
                            - (IF handlers[j].pc # "hash"
                               THEN handlers[j].next ELSE handlers[j].next - 1))
    IN  Count(Len(handlers))

\* The end of _handleInput: "Update prev state".
UpdatePrevState(rec, newValue, dom) ==
    [rec EXCEPT !.prevValue = newValue,
                !.prevSelStart = dom.selStart,
                !.prevSelEnd = <<dom.selEnd>>]

\* An input gesture: _handlePaste, _handleBeforeInput, the change of the
\* element, and _handleInput up to its first await.  The gesture is one of
\* `gestures`, on a text of at most maxText characters, while at most
\* maxLog events are recorded and fewer than maxWaiting invocations wait.
AInputOf(gestures, maxText, maxLog, maxWaiting) ==
    \E g \in gestures :
        /\ GestureEnabled(g, adom)
        /\ Len(DomAfter(g, adom).text) <= maxText
        /\ Len(ahandlers) < maxWaiting
        /\ LET before == [arec EXCEPT !.isPaste = (@ \/ g.paste),
                                      !.prevValue = adom.text,
                                      !.prevSelStart = adom.selStart,
                                      !.prevSelEnd = <<adom.selEnd>>]
               dom2 == DomAfter(g, adom)
               timestamp == know - before.sessionStart
               built == BuildEvents(g.inputType, g.data,
                            g.inputType = "insertFromPaste" \/ before.isPaste,
                            timestamp, dom2.text, before.prevValue,
                            before.prevSelStart,
                            SelEndOr(before.prevSelEnd, before.prevSelStart),
                            dom2.selStart)
               events == [j \in 1..Len(built) |-> LegacyEvent(built[j])]
           IN  /\ Len(adoc.keystrokeLog) + NotYetPushed(ahandlers) + Len(events)
                    <= maxLog
               /\ adom' = dom2
               /\ adoc' = [adoc EXCEPT !.content = dom2.text]
               /\ IF events = <<>>
                  THEN /\ arec' = UpdatePrevState([before EXCEPT !.isPaste = FALSE],
                                                  dom2.text, dom2)
                       /\ UNCHANGED ahandlers
                  ELSE /\ arec' = [before EXCEPT !.isPaste = FALSE]
                       /\ ahandlers' = Append(ahandlers,
                              [events |-> events, newValue |-> dom2.text,
                               next |-> 1, pc |-> "hash", cp |-> <<>>])
               /\ areturned' = areturned \o events
               /\ UNCHANGED afailed
        /\ UNCHANGED recVars

AInput == AInputOf(Gestures, KMaxText, AMaxLog, AMaxLog + 1)

\* An awaited digest settles with a value.
\*   "hash"        the event takes its contentHash and is pushed; when the
\*                 log length is a multiple of CHECKPOINT_INTERVAL,
\*                 createHashCheckpoint(this._doc) is called: it starts the
\*                 digest of doc.content as it is now;
\*   "checkpoint"  createHashCheckpoint has its contentHash, reads the last
\*                 cumulative hash of doc.hashChain and starts the digest of
\*                 the two;
\*   "cumulative"  createHashCheckpoint takes keystrokeLog.length - 1 as the
\*                 index and pushes the checkpoint.
\* After an event without checkpoint, or after the checkpoint, the
\* invocation goes on to its next event or to its end.
ADigestDone ==
    \E h \in 1..Len(ahandlers) :
        LET inv == ahandlers[h]
            pushed == inv.events[inv.next]
                      @@ [contentHash |-> generateContentHash(inv.newValue)]
            doc2 == IF inv.pc = "hash"
                    THEN [adoc EXCEPT !.keystrokeLog = Append(@, pushed)]
                    ELSE IF inv.pc = "checkpoint" THEN adoc
                    ELSE PushCheckpoint(adoc, Len(adoc.keystrokeLog) - 1,
                             inv.cp.contentHash,
                             generateContentHash(inv.cp.previousCumulativeHash
                                                 \o inv.cp.contentHash))
            checkpointDue == /\ inv.pc = "hash"
                             /\ Len(doc2.keystrokeLog) % CHECKPOINT_INTERVAL = 0
            finished == /\ ~checkpointDue
                        /\ inv.pc # "checkpoint"
                        /\ inv.next = Len(inv.events)
        IN  /\ adoc' = doc2
            /\ ahandlers' =
                 IF checkpointDue
                 THEN [ahandlers EXCEPT ![h].pc = "checkpoint",
                                        ![h].cp = [content |-> adoc.content]]
                 ELSE IF inv.pc = "checkpoint"
                 THEN [ahandlers EXCEPT
                          ![h].pc = "cumulative",
                          ![h].cp = [contentHash |-> generateContentHash(inv.cp.content),
                                     previousCumulativeHash |->
                                         PreviousCumulativeHash(adoc)]]
                 ELSE IF finished THEN RemoveAt(ahandlers, h)
                 ELSE [ahandlers EXCEPT ![h].pc = "hash", ![h].next = @ + 1,
                                        ![h].cp = <<>>]
            /\ arec' = IF finished THEN UpdatePrevState(arec, inv.newValue, adom)
                       ELSE arec
            /\ UNCHANGED <<adom, areturned, afailed, recVars>>

\* An awaited digest fails: the catch block pushes the events of the
\* invocation that are not in the log, without hashes, and the invocation ends.
ADigestFailAt(h) ==
        LET inv == ahandlers[h]
            first == IF inv.pc = "hash" THEN inv.next ELSE inv.next + 1
            rest == [j \in 1..(Len(inv.events) - first + 1) |->
                        inv.events[first + j - 1] @@ [contentHash |-> EmptyHash]]
        IN  /\ adoc' = [adoc EXCEPT !.keystrokeLog = @ \o rest]
            /\ ahandlers' = RemoveAt(ahandlers, h)
            /\ arec' = UpdatePrevState(arec, inv.newValue, adom)
            /\ afailed' = TRUE
            /\ UNCHANGED <<adom, areturned, recVars>>

ADigestFail == \E h \in 1..Len(ahandlers) : ADigestFailAt(h)

ATick == KTick /\ UNCHANGED asyVars

\* The parts of the program this specification leaves alone.
AsyncRecorderFrame == UNCHANGED <<verVars, repVars, expVars, queVars, plaVars, edVars>>

NextAsyncRecorder ==
    \/ ATick /\ AsyncRecorderFrame
    \/ AInput /\ AsyncRecorderFrame
    \/ ADigestDone /\ AsyncRecorderFrame
    \/ ADigestFail /\ AsyncRecorderFrame

SpecAsyncRecorder == Init /\ [][NextAsyncRecorder]_vars

\* The same recorder over a long session: the user types a character or
\* deletes backward, up to ALongMaxWaiting invocations of _handleInput wait
\* at a time, and the digests that fail are those of createHashCheckpoint.
ATyping == AInputOf(TypingGestures, ALongMaxText, ALongMaxLog, ALongMaxWaiting)

ACheckpointFail ==
    \E h \in 1..Len(ahandlers) :
        /\ ahandlers[h].pc # "hash"
        /\ ADigestFailAt(h)

NextAsyncCheckpoints ==
    \/ ATyping /\ AsyncRecorderFrame
    \/ ADigestDone /\ AsyncRecorderFrame
    \/ ACheckpointFail /\ AsyncRecorderFrame

SpecAsyncCheckpoints == Init /\ [][NextAsyncCheckpoints]_vars

(***************************************************************************)
(* The KeystrokeRecorder that pushes the events to the log in _handleInput *)
(* and queues their hashing: the task of a batch gives each event its      *)
(* contentHash and writes a checkpoint after every CHECKPOINT_INTERVAL-th  *)
(* event.  The user types a character or deletes backward, at the caret or *)
(* over the selected text.                                                 *)
(***************************************************************************)
\* obj[name] = value on an object that may not have the property yet.
SetProperty(obj, name, value) == (name :> value) @@ obj

\* _handleBeforeInput, the change of the element, and _handleInput: the
\* events are built and pushed, and the hashing task of the batch is queued.
QInput ==
    \E g \in TypingGestures :
        /\ GestureEnabled(g, qdom)
        /\ Len(DomAfter(g, qdom).text) <= QMaxText
        /\ LET before == [qrec EXCEPT !.isPaste = (@ \/ g.paste),
                                      !.prevValue = qdom.text,
                                      !.prevSelStart = qdom.selStart,
                                      !.prevSelEnd = <<qdom.selEnd>>]
               dom2 == DomAfter(g, qdom)
               timestamp == know - before.sessionStart
               built == BuildEvents(g.inputType, g.data,
                            g.inputType = "insertFromPaste" \/ before.isPaste,
                            timestamp, dom2.text, before.prevValue,
                            before.prevSelStart,
                            SelEndOr(before.prevSelEnd, before.prevSelStart),
                            dom2.selStart)
               events == [j \in 1..Len(built) |-> LegacyEvent(built[j])]
               eventIndices == [j \in 1..Len(events) |->
                                   Len(qdoc.keystrokeLog) + j - 1]
           IN  /\ Len(qdoc.keystrokeLog) + Len(events) <= QMaxLog
               /\ qdom' = dom2
               /\ qrec' = UpdatePrevState([before EXCEPT !.isPaste = FALSE],
                                          dom2.text, dom2)
               /\ qdoc' = [qdoc EXCEPT !.content = dom2.text,
                                       !.keystrokeLog = @ \o events]
               /\ qqueue' = IF events = <<>> THEN qqueue
                            ELSE Append(qqueue,
                                     [eventIndices |-> eventIndices,
                                      contentForHash |-> dom2.text,
                                      i |-> 0, pc |-> "hash"])
               /\ UNCHANGED qfailed

\* select, click or keyup: the user selects the whole text or puts the caret
\* at its end, and _handleSelect takes the start of the selection.
QSelect ==
    /\ qdom.text # <<>>
    /\ \E s \in {<<0, Len(qdom.text)>>, <<Len(qdom.text), Len(qdom.text)>>}
                 \ {<<qdom.selStart, qdom.selEnd>>} :
        /\ qdom' = [qdom EXCEPT !.selStart = s[1], !.selEnd = s[2]]
        /\ qrec' = [qrec EXCEPT !.prevSelStart = s[1]]
    /\ UNCHANGED <<qdoc, qqueue, qfailed>>

\* The digest awaited by the first task of _hashQueue settles with a value.
\* At "hash" events[i] takes its contentHash; when eventIndices[i] + 1 is a
\* multiple of CHECKPOINT_INTERVAL the task then awaits createHashCheckpoint
\* (whose two digests are one step here: only this queue writes
\* doc.hashChain); otherwise it goes on to its next event or ends.
QDigestDone ==
    /\ qqueue # <<>>
    /\ LET task == qqueue[1]
           idx == task.eventIndices[task.i + 1]
           doc2 == IF task.pc = "hash"
                   THEN [qdoc EXCEPT !.keystrokeLog[idx + 1] =
                            SetProperty(@, "contentHash",
                                generateContentHash(task.contentForHash))]
                   ELSE createHashCheckpoint(qdoc, task.contentForHash, idx)
           checkpointDue == /\ task.pc = "hash"
                            /\ (idx + 1) % CHECKPOINT_INTERVAL = 0
           finished == ~checkpointDue /\ task.i + 1 = Len(task.eventIndices)
       IN  /\ qdoc' = doc2
           /\ qqueue' = IF checkpointDue THEN [qqueue EXCEPT ![1].pc = "checkpoint"]
                        ELSE IF finished THEN Tail(qqueue)
                        ELSE [qqueue EXCEPT ![1].pc = "hash", ![1].i = @ + 1]
    /\ UNCHANGED <<qdom, qrec, qfailed>>

\* The digest awaited by the first task fails: the catch block gives the
\* events of the batch that have no contentHash the value '', and the task
\* ends.
QDigestFail ==
    /\ qqueue # <<>>
    /\ qfailed < QMaxFailures
    /\ LET task == qqueue[1]
           batch == {task.eventIndices[j] : j \in 1..Len(task.eventIndices)}
       IN  qdoc' = [qdoc EXCEPT !.keystrokeLog =
                      [j \in 1..Len(@) |->
                          IF (j - 1) \in batch /\ ~Has(@[j], "contentHash")
                          THEN SetProperty(@[j], "contentHash", EmptyHash)
                          ELSE @[j]]]
    /\ qqueue' = Tail(qqueue)
    /\ qfailed' = qfailed + 1
    /\ UNCHANGED <<qdom, qrec>>

\* The parts of the program this specification leaves alone.
QueuedRecorderFrame == UNCHANGED <<verVars, repVars, expVars, recVars, asyVars, plaVars, edVars>>

NextQueuedRecorder ==
    \/ QInput /\ QueuedRecorderFrame
    \/ QSelect /\ QueuedRecorderFrame
    \/ QDigestDone /\ QueuedRecorderFrame
    \/ QDigestFail /\ QueuedRecorderFrame

SpecQueuedRecorder == Init /\ [][NextQueuedRecorder]_vars

(***************************************************************************)
(* Claims                                                                  *)
(***************************************************************************)

\* The smallest event index verifyDocument reports as diverging, if any:
\* the keystrokeIndex entries of results.invalidCheckpoints.
ReportedDivergences(results) ==
    {results.invalidCheckpoints[j].keystrokeIndex :
        j \in {n \in 1..Len(results.invalidCheckpoints) :
                 "keystrokeIndex" \in DOMAIN results.invalidCheckpoints[n]}}

\* C1: after any single field (time, kind, position, payload) of any one
\* event i of a recorded document is altered, verifyDocument reports the
\* document invalid with a divergence index less than or equal to i.
C1_ChainSensitivity ==
    (vphase = "verified" /\ valter.what \in {"time", "kind", "position", "payload"})
        => /\ vresults.isValid = FALSE
           /\ \E d \in ReportedDivergences(vresults) : d <= valter.index

\* C2: for a document whose log and chain are untouched and whose declared
\* content was edited by hand, verifyDocument reports chain validity true and
\* content validity false.
C2_IndependentSignals ==
    (vphase = "verified" /\ valter.what = "content")
        => /\ ResultSignal(vresults, "chainValid", TRUE)
           /\ ResultSignal(vresults, "contentValid", FALSE)

\* C3: a document that carries n events and declares the chain head and the
\* checkpoints of its first k < n events fails verification, with chain
\* validity not true.
C3_PrefixHeadRejected ==
    (vphase = "verified" /\ valter.what = "prefix")
        => /\ vresults.isValid = FALSE
           /\ ~ResultSignal(vresults, "chainValid", TRUE)


\* Applying the first i events in order to empty content, with no snapshot.
RECURSIVE ContentAt(_, _)
ContentAt(log, i) ==
    IF i = 0 THEN <<>> ELSE ReplayApply(ContentAt(log, i - 1), log[i])

\* C4: the content seekTo(i) produces from the snapshot cache is the same for
\* every snapshot interval the cache can be built with, and is the content
\* obtained by applying the first i events to empty content.
C4_SeekDeterminism ==
    rphase = "sought"
        => /\ rContent = ContentAt(rlog, rIndex)
           /\ \A k \in SnapshotIntervals :
                SeekContent(buildSnapshots(rlog, k), rlog, rIndex) = rContent

\* A seek that starts from a snapshot inside the log and applies events
\* after it, to non-empty content.
C4_Witness ==
    /\ rphase = "sought"
    /\ NearestSnapshot(rSnapshots, rIndex) > 0
    /\ NearestSnapshot(rSnapshots, rIndex) < rIndex
    /\ rSnapshots[NearestSnapshot(rSnapshots, rIndex)] # <<>>
    /\ rContent # rSnapshots[NearestSnapshot(rSnapshots, rIndex)]


\* C5: exporting a document and importing the result yields a document whose
\* log replays from empty content to the same content and gives the same
\* recomputed chain head as the original's, with the content and chainHash
\* fields unchanged.
C5_ExportImportRoundTrip ==
    (xphase = "imported" /\ ~NoArrayLog(xjson))
        => /\ ximported.ok
           /\ ContentAt(ximported.doc.keystrokeLog, Len(ximported.doc.keystrokeLog))
                = ContentAt(xdoc.keystrokeLog, Len(xdoc.keystrokeLog))
           /\ ChainOver(ximported.doc.keystrokeLog) = ChainOver(xdoc.keystrokeLog)
           /\ ximported.doc.content = xdoc.content
           /\ ximported.doc.chainHash = xdoc.chainHash

\* A document with events of every kind, non-empty content and a chain head
\* went through export and import.
C5_Witness ==
    /\ xphase = "imported"
    /\ ximported.ok
    /\ Len(ximported.doc.keystrokeLog) = XMaxLog
    /\ ximported.doc.content # <<>>
    /\ ximported.doc.chainHash # EmptyHash
    /\ \E j \in 1..Len(xdoc.keystrokeLog) : xdoc.keystrokeLog[j].y = "m"

\* C6: no event whose time is less than the time of the event before it is
\* ever in the log of the editor's document, whatever the recorder did:
\* recording, resetSessionStart(), or a reload into a new KeystrokeRecorder.
C6_MonotonicTime ==
    \A j \in 2..Len(kdoc.keystrokeLog) :
        kdoc.keystrokeLog[j].t >= kdoc.keystrokeLog[j - 1].t

\* The digest of event j of the log has been started by the recorder.
HashStarted(j) == khash[j] \in {"done", "failed"} \/ InFlight(kqueue) = j

\* C7: for two events a before b of the log, once the recorder has started
\* the chain computation for b, the computation for a is neither waiting in
\* the queue nor in flight.
C7_HashingSerialized ==
    \A a \in 1..Len(khash), b \in 1..Len(khash) :
        (a < b /\ HashStarted(b)) => khash[a] # "pending"

\* The digest of the second event is in flight, the first has completed, and
\* both were queued by the same recorder.
C7_Witness ==
    /\ Len(khash) = KMaxLog
    /\ khash[1] = "done"
    /\ InFlight(kqueue) = KMaxLog
    /\ \A j \in 1..(KMaxLog - 1) : khash[j] = "done"

\* The declared chain head a complete hashing of the log gives; '' before
\* anything was hashed.
ChainHead(log) == IF log = <<>> THEN EmptyHash ELSE ChainOver(log)

\* C8: doc.chainHash is always the chain value over some prefix of the log,
\* and the chain value over the whole log whenever the hash queue is idle.
C8_ChainHeadOverPrefix ==
    /\ \E k \in 0..Len(kdoc.keystrokeLog) :
          kdoc.chainHash = ChainHead(SubSeq(kdoc.keystrokeLog, 1, k))
    /\ kqueue = <<>> => kdoc.chainHash = ChainHead(kdoc.keystrokeLog)

\* C9: the document in storage and the document handed to exportToJSON carry
\* the chain value computed over every event of their log.
C9_SavedChainComplete ==
    /\ kstore.chainHash = ChainHead(kstore.keystrokeLog)
    /\ \A j \in 1..Len(kexported) :
          kexported[j].chainHash = ChainHead(kexported[j].keystrokeLog)

\* An event of the log without the contentHash it was pushed with.
AsBuilt(e) == [n \in DOMAIN e \ {"contentHash"} |-> e[n]]

\* C10: the events built by the input handlers that have returned are in the
\* log, in the order they were built.
C10_EventsInLogOnReturn ==
    /\ Len(adoc.keystrokeLog) >= Len(areturned)
    /\ \A j \in 1..Len(areturned) : AsBuilt(adoc.keystrokeLog[j]) = areturned[j]


\* A structural error of event `event` on content `content`: a mutating
\* event whose position exceeds the content length, or a delete whose
\* payload differs from the content at [position, position + len(payload)).
StructuralError(content, event) ==
    \/ /\ event.type \in {"insert", "paste", "delete"}
       /\ event.position > Len(content)
    \/ /\ event.type = "delete"
       /\ \/ event.position + Len(event.char) > Len(content)
          \/ SubSeq(content, event.position + 1, event.position + Len(event.char))
                # event.char

\* The 0-based index of the first event of the log that is a structural
\* error on the content replayed up to it, or -1.
RECURSIVE FirstStructuralErrorFrom(_, _, _)
FirstStructuralErrorFrom(log, i, content) ==
    IF i >= Len(log) THEN -1
    ELSE IF StructuralError(content, log[i + 1]) THEN i
    ELSE FirstStructuralErrorFrom(log, i + 1, VerifyApply(content, log[i + 1]))

FirstStructuralError(log) == FirstStructuralErrorFrom(log, 0, <<>>)

\* C11: when the log of a verified document has its first structural error at
\* index i, the verification result reports index i as a structural error (a
\* signal of its own, not a hash mismatch) and reports no divergence found
\* by applying an event after i.
C11_StructuralErrorReported ==
    (vphase = "verified" /\ FirstStructuralError(vdoc.keystrokeLog) >= 0)
        => /\ ResultSignal(vresults, "structuralError",
                           FirstStructuralError(vdoc.keystrokeLog))
           /\ \A d \in ReportedDivergences(vresults) :
                  d <= FirstStructuralError(vdoc.keystrokeLog)


\* C12: a verification that reports the document valid compared every
\* declared checkpoint and found it equal: isValid = true implies
\* validCheckpoints = totalCheckpoints.
C12_ValidMeansAllCompared ==
    (vphase = "verified" /\ vresults.isValid)
        => vresults.validCheckpoints = vresults.totalCheckpoints


\* The content after the first n events of a log of {timestamp, type,
\* position, char, length} events, replayed from empty content.
RECURSIVE ReplayedContent(_, _)
ReplayedContent(log, n) ==
    IF n = 0 THEN <<>>
    ELSE VerifyApply(ReplayedContent(log, n - 1), log[n])

\* C13: every checkpoint the recorder has written with keystrokeIndex = i
\* has as contentHash the digest of the content after replaying events 0..i,
\* whatever the interleaving of inputs and digest completions; so verifying
\* the recorded document as it stands reports no checkpoint mismatch.
C13_CheckpointMatchesReplay ==
    /\ \A j \in 1..Len(qdoc.hashChain) :
           qdoc.hashChain[j].contentHash
               = generateContentHash(ReplayedContent(qdoc.keystrokeLog,
                                         qdoc.hashChain[j].keystrokeIndex + 1))
    /\ verifyDocument(qdoc).invalidCheckpoints = <<>>


\* The checkpoints of a hash chain are chained: each cumulativeHash is the
\* digest of the cumulativeHash before it ('0' before the first) followed by
\* its own contentHash.
Chained(hashChain) ==
    \A j \in 1..Len(hashChain) :
        hashChain[j].cumulativeHash
            = generateContentHash(
                  (IF j = 1 THEN GenesisHash ELSE hashChain[j - 1].cumulativeHash)
                  \o hashChain[j].contentHash)

\* C14: the hash chain of the recorded document is chained at every moment,
\* whatever the interleaving of the invocations of the input handler and the
\* completions of their digests.
C14_CumulativeChained == Chained(adoc.hashChain)


\* C15: verifying a document that has no checkpoints (here the document
\* validateImport returns for an exported file, which has no checkpoint list
\* at all) completes with a result, and the result is not invalid.
C15_NoCheckpointsNotInvalid ==
    xphase = "verified"
        => /\ Has(xresults, "isValid")
           /\ xresults.isValid

\* C17: importing a file whose keystrokeLog is missing or is not an array is
\* rejected with an error and yields no document.
C17_ImportRejectsNoLog ==
    (xphase = "imported" /\ NoArrayLog(xjson))
        => /\ ~ximported.ok
           /\ Has(ximported, "error")
           /\ ~Has(ximported, "doc")

\* A file whose keystrokeLog was replaced by an object was imported and
\* rejected.
C17_Witness ==
    /\ xphase = "imported"
    /\ Has(JSONparse(xjson), "keystrokeLog")
    /\ JSONparse(xjson).typeof["keystrokeLog"] = "object"
    /\ ~ximported.ok


\* The properties of a checkpoint and of a verification result.
CheckpointProperties == {"timestamp", "keystrokeIndex", "contentHash", "cumulativeHash"}
ResultProperties == {"totalCheckpoints", "validCheckpoints", "invalidCheckpoints", "isValid"}

\* C16: every stored checkpoint records which digest path produced its
\* hashes, and verifying a document on the other path than the one it was
\* recorded on compares no digests: the result says so (it carries a signal
\* beyond counts and validity) and reports no checkpoint as mismatching.
C16_CrossPathNotCompared ==
    /\ valter.what \in {"none", "context"}
          => \A j \in 1..Len(vdoc.hashChain) :
                 DOMAIN vdoc.hashChain[j] \ CheckpointProperties # {}
    /\ (vphase = "verified" /\ valter.what = "context")
          => /\ DOMAIN vresults \ ResultProperties # {}
             /\ vresults.invalidCheckpoints = <<>>


\* Event j of the log leaves the replayed content as it was: in the
\* snapshots built with interval k, in a seek to j against a seek to j - 1,
\* and in the playback step from j - 1.
ReplayUnchangedAt(log, j, k) ==
    LET snapshots == buildSnapshots(log, k)
        before == SeekContent(snapshots, log, j - 1)
    IN  /\ SeekContent(snapshots, log, j) = before
        /\ ReplayApply(before, log[j]) = before
        /\ ({j - 1, j} \subseteq DOMAIN snapshots => snapshots[j] = snapshots[j - 1])

\* A step of the recorder that appended a move event to the log.
MoveAppended ==
    /\ Len(kdoc'.keystrokeLog) > Len(kdoc.keystrokeLog)
    /\ \E j \in (Len(kdoc.keystrokeLog) + 1)..Len(kdoc'.keystrokeLog) :
           kdoc'.keystrokeLog[j].y = "m"

\* C18: a move event of a recorded log changes the content neither in the
\* snapshots nor in a seek nor in playback, and the step that records a
\* cursor move appends exactly one event and leaves doc.content unchanged.
C18_MoveLeavesContent ==
    /\ [](\A j \in 1..Len(kdoc.keystrokeLog) :
            kdoc.keystrokeLog[j].y = "m"
                => \A k \in SnapshotIntervals :
                       ReplayUnchangedAt(kdoc.keystrokeLog, j, k))
    /\ [][MoveAppended
            => /\ kdoc'.keystrokeLog
                    = Append(kdoc.keystrokeLog,
                             kdoc'.keystrokeLog[Len(kdoc'.keystrokeLog)])
               /\ kdoc'.content = kdoc.content]_vars

\* A cursor move was recorded after text was typed.
C18_Witness ==
    \E j \in 2..Len(kdoc.keystrokeLog) :
        /\ kdoc.keystrokeLog[j].y = "m"
        /\ kdoc.keystrokeLog[j - 1].y = "i"
        /\ kdoc.content # <<>>


\* Sequence `after` keeps every element of sequence `before` at its index
\* with the same value.
OnlyGrown(before, after) ==
    /\ Len(after) >= Len(before)
    /\ \A j \in 1..Len(before) : after[j] = before[j]

\* C19: in every step of the recorder (an input, a selection change, a
\* digest completing or failing) the log and the hash chain of the document
\* only grow: each event and each checkpoint already there stays at its
\* index with the same field values.
C19_AppendOnly ==
    [][/\ OnlyGrown(qdoc.keystrokeLog, qdoc'.keystrokeLog)
       /\ OnlyGrown(qdoc.hashChain, qdoc'.hashChain)]_vars


\* The events a step of the recorder appended to the log.
Appended == SubSeq(kdoc'.keystrokeLog, Len(kdoc.keystrokeLog) + 1,
                   Len(kdoc'.keystrokeLog))

\* Delete event k of the events a step appended is exact: on the text of the
\* element as the events before it in the step leave it, the payload is the
\* characters at [p, p + len(payload)), and when the delete is all the step
\* recorded, removing them gives the text the element has after the step.
DeleteExact(k) ==
    LET before == SeekApply(Appended, 0, k - 1, kdom.text)
        event == Appended[k]
    IN  /\ event.p + Len(event.c) <= Len(before)
        /\ SubSeq(before, event.p + 1, event.p + Len(event.c)) = event.c
        /\ (Len(Appended) = 1
              => deleteAt(before, event.p, Len(event.c)) = kdom'.text)

\* C20: every delete event the recorder appends carries as payload exactly
\* the characters the input removed, starting at the event's position:
\* backward and forward deletions, with and without a selection, and the
\* fallback branch.
C20_DeletePayloadExact ==
    [][Len(kdoc'.keystrokeLog) > Len(kdoc.keystrokeLog)
         => \A k \in 1..Len(Appended) :
                Appended[k].y = "d" => DeleteExact(k)]_vars


\* The keystrokeIndex values a log of n events should have checkpoints for,
\* in order: every i < n with (i + 1) mod CHECKPOINT_INTERVAL = 0.
CheckpointIndices(n) ==
    [j \in 1..(n \div CHECKPOINT_INTERVAL) |-> j * CHECKPOINT_INTERVAL - 1]

\* The keystrokeIndex values of the checkpoints of a hash chain, in order.
DeclaredIndices(hashChain) ==
    [j \in 1..Len(hashChain) |-> hashChain[j].keystrokeIndex]

\* C21: when no invocation of the input handler waits for a digest and no
\* digest has failed, doc.hashChain holds exactly one checkpoint for each
\* log index i with (i + 1) mod 10 = 0, in increasing order, each with
\* keystrokeIndex = i, and no other checkpoint.
C21_CheckpointCadence ==
    (ahandlers = <<>> /\ ~afailed)
        => DeclaredIndices(adoc.hashChain) = CheckpointIndices(Len(adoc.keystrokeLog))


\* C22: the document of the editor started empty, and after any sequence of
\* inputs handled by _handleInput, replaying doc.keystrokeLog in order from
\* empty content yields exactly doc.content.
C22_LogReplaysToContent ==
    ContentAt(kdoc.keystrokeLog, Len(kdoc.keystrokeLog)) = kdoc.content


\* C23: in every state of a constructed ReplayEngine, also while an
\* invocation of play() is suspended in a sleep or in a checkpoint digest,
\* content is the result of applying the events 0..index-1 of the log to the
\* empty content.
C23_ContentFollowsIndex ==
    pphase = "engine" => pContent = SeekApply(plog, 0, pIndex, <<>>)

\* C24: in the engine without checkpoint digests, every event applied since
\* the latest play() began was applied by that latest invocation: an earlier
\* invocation applies no further event.
C24_OnePlaybackLoop ==
    pCheckpoints = {}
        => \A k \in 1..Len(pApplied) : pApplied[k][1] = Len(pLoops)

\* The engine is as the latest call found it, and the call started no
\* invocation of play().
UnchangedSinceCall ==
    /\ pState = pLast.state
    /\ pIndex = pLast.index
    /\ pContent = pLast.content
    /\ Len(pLoops) = pLast.loops

\* C27: the state is one of stopped, playing, paused; pause() only turns
\* playing into paused; resume() starts playback when paused and only then;
\* play() while playing starts nothing; in the other states these calls
\* leave state, index and content as they were.
C27_CallsGuarded ==
    /\ pState \in {"stopped", "playing", "paused"}
    /\ pLast.call = "pause" =>
           IF pLast.state = "playing"
           THEN /\ pState = "paused"
                /\ pIndex = pLast.index
                /\ pContent = pLast.content
                /\ Len(pLoops) = pLast.loops
           ELSE UnchangedSinceCall
    /\ pLast.call = "resume" =>
           IF pLast.state = "paused"
           THEN Len(pLoops) = pLast.loops + 1
           ELSE UnchangedSinceCall
    /\ (pLast.call = "play" /\ pLast.state = "playing") => UnchangedSinceCall


\* pause() was called on an engine that had played and was not playing.
C27_Witness ==
    /\ pLast.call = "pause"
    /\ pLast.state # "playing"
    /\ pLast.index > 0
    /\ UnchangedSinceCall

\* The latest call was play() on a stopped engine at the start of the log.
PlayedFromStopped ==
    /\ pLast.call = "play"
    /\ pLast.state = "stopped"
    /\ pLast.index = 0
    /\ pLast.content = <<>>

\* The playback has run to its end: every event applied once, in log order.
PlaybackComplete ==
    /\ pState = "stopped"
    /\ pIndex = Len(plog)
    /\ pContent = SeekApply(plog, 0, Len(plog), <<>>)
    /\ Len(pApplied) = Len(plog)
    /\ \A k \in 1..Len(pApplied) : pApplied[k][2] = k - 1
    /\ pCompleted = 1

\* C28: after play() on a stopped engine, unless pause, stop or seekTo is
\* called, the playback eventually is stopped at index = n with the content
\* of the whole log, every event applied exactly once in log order and
\* onComplete called exactly once.
C28_PlaybackCompletes ==
    PlayedFromStopped
        ~> (PlaybackComplete \/ pLast.call \in {"pause", "stop", "seekTo"})


\* C25: when the save that destroy() started for the document D has stored
\* a document, the store holds D as it was when destroy() was called, with
\* its latest log and content.
C25_DestroySavesItsDocument ==
    (eLast.op = "saved" /\ eLast.by = "destroy" /\ eLast.returned)
        => loadDocument(eStorage, eLast.of.id) = eLast.of

\* A save that failed left the dirty flag as it found it, and a keystroke
\* left it set.
DirtyKept ==
    /\ (eLast.op = "saved" /\ ~eLast.returned) => eDirty = eLast.dirty
    /\ eLast.op = "keystroke" => eDirty

\* The dirty flag is cleared by a save that returned true, and by nothing
\* else.
DirtyClearedBySave ==
    (eDirty /\ ~eDirty') => (eLast'.op = "saved" /\ eLast'.returned)

\* C29: a save whose saveDocument returned false returns false and leaves
\* the dirty flag set, so that the auto-save timer saves again; the flag is
\* cleared only by a save that returned true, and every keystroke sets it.
C29_DirtyUntilSaved ==
    []DirtyKept /\ [][DirtyClearedBySave]_vars

\* An auto-save of a dirty document failed and the timer can save again.
C29_Witness ==
    /\ eLast.op = "saved"
    /\ eLast.by = "timer"
    /\ ~eLast.returned
    /\ eLast.dirty
    /\ eDirty
    /\ Idle

\* Every id loads the document most recently saved under it, or null.
LoadsMostRecent ==
    \A x \in DocumentIds : loadDocument(eStorage, x) = eRecent[x]

\* A step changes what is loaded for the id it saved or deleted, at most.
OtherEntriesKept ==
    \A x \in DocumentIds :
        x # eLast'.id => loadDocument(eStorage', x) = loadDocument(eStorage, x)

\* C30: saveDocument changes only the entry of doc.id and deleteDocument
\* removes only the entry of id: loadDocument(x) is the document most
\* recently saved with id x, or null if there is none or it was deleted
\* since, and the other documents are returned unchanged.
C30_StoreEntriesIndependent ==
    []LoadsMostRecent /\ [][OtherEntriesKept]_vars

\* A document was deleted from a store that holds another document with
\* text.
C30_Witness ==
    /\ eLast.op = "delete"
    /\ loadDocument(eStorage, eLast.id) = Null
    /\ \E x \in DocumentIds :
           /\ loadDocument(eStorage, x) # Null
           /\ loadDocument(eStorage, x).content # <<>>


\* C26: every event appended to the log eventually has its digest computed
\* (it completes or fails), whatever happened to the digests before it.
C26_QueueSurvivesFailure ==
    \A j \in 1..HMaxLog :
        (Len(khash) >= j)
            ~> (Len(khash) >= j /\ khash[j] \in {"done", "failed"})

====
